---- MODULE Spec2Model ----
(***************************************************************************)
(* The property protocol of the interpreter (methods/properties.js with    *)
(* the descriptor predicates of methods/is.js): one object O, its string   *)
(* keyed map O.properties and its symbol keyed map O.symbols, and the      *)
(* calls the protocol makes into the realm (recordModifiedProperty) and    *)
(* into the generator (emit...).                                           *)
(***************************************************************************)
EXTENDS Integers, Sequences, FiniteSets, TLC

VARIABLES
  kind,        \* what O is: "ordinary", "intrinsic" or "global" (realm.$GlobalObject)
  generator,   \* TRUE iff realm.generator is set
  key,         \* the property key P the client program works on
  extensible,  \* O's [[Extensible]] slot
  properties,  \* O.properties : string key -> binding
  symbols,     \* O.symbols    : symbol key -> binding
  pc,          \* "idle": the client is about to call; "returned": a call has returned
  last,        \* the call that has returned: its arguments, result and what it did
  callee,      \* the function whose body is evaluated: "native", "generator", "ordinary"
  realm,       \* the realm's capture region: its modified property and binding sets
  env,         \* the environment bindings the function body assigns to
  regionStart, \* what the bindings held when the capture region started
  prototype,         \* O's [[Prototype]]: "null" or "parent"
  parentProperties,  \* parent.properties
  parentSymbols,     \* parent.symbols
  parentExtensible,  \* parent's [[Extensible]] slot
  StringData,        \* the [[StringData]] slot of O when O is a String object
  keyOrder,          \* the keys of O.properties and of O.symbols in insertion order
  parentKeyOrder,    \* the keys of parent.properties and of parent.symbols in insertion order
  iterator,          \* the iterator EnumerateObjectProperties(O) returned, with its closure
  contextStack,      \* the realm's stack of execution contexts, the running one last
  environments,      \* the function environments created so far
  partial,           \* O.isPartial()
  simple,            \* O.isSimple()
  loop,              \* the for-in or for-of loop that is being evaluated
  heap               \* the objects OrdinarySetPrototypeOf works on: $Prototype and [[Extensible]]

\* the state of the call evaluator
callVars == <<callee, realm, env, regionStart>>

\* the prototype chain of O
protoVars == <<prototype, parentProperties, parentSymbols, parentExtensible>>

\* what a String object adds to O
stringVars == <<StringData, keyOrder>>

\* an enumeration of the properties of O
enumVars == <<parentKeyOrder, iterator>>

\* whether O is partial, and whether it is simple
flagVars == <<partial, simple>>

\* what the property protocol on O alone leaves as it is
restVars == <<enumVars, contextStack, environments, flagVars, loop, heap>>

vars == <<kind, generator, key, extensible, properties, symbols, pc, last, callVars,
          protoVars, stringVars, restVars>>

(***************************************************************************)
(* Values.  "undefined" is realm.intrinsics.undefined, "v1" another        *)
(* concrete value, "adel" an AbstractValue whose mightHaveBeenDeleted() is *)
(* true.  "f1" is a callable function object.                              *)
(***************************************************************************)
Values == {"undefined", "v1", "adel"}
Funcs == {"undefined", "f1"}
StringKeys == {"x"}
SymbolKeys == {"@@s"}
Keys == StringKeys \cup SymbolKeys
Receivers == {"O", "primitive"}

EmptyRec == [f \in {} |-> TRUE]
\* a binding that is not in the map
NoBinding == [nobinding |-> TRUE]
\* the descriptor slot of a binding, or a result, that is JavaScript undefined
Undef == [absent |-> TRUE]

IsAbstract(v) == v = "adel"
mightHaveBeenDeleted(v) == v = "adel"

\* the descriptors a caller can pass: any subset of the fields, never both
\* data and accessor fields
ValuePart == {EmptyRec} \cup {[value |-> v] : v \in Values}
WritablePart == {EmptyRec} \cup {[writable |-> b] : b \in BOOLEAN}
GetPart == {EmptyRec} \cup {[get |-> g] : g \in Funcs}
SetPart == {EmptyRec} \cup {[set |-> s] : s \in Funcs}
EnumerablePart == {EmptyRec} \cup {[enumerable |-> b] : b \in BOOLEAN}
ConfigurablePart == {EmptyRec} \cup {[configurable |-> b] : b \in BOOLEAN}
AttrPart == {e @@ c : e \in EnumerablePart, c \in ConfigurablePart}
Descs == {a @@ v @@ w : a \in AttrPart, v \in ValuePart, w \in WritablePart}
           \cup {a @@ g @@ s : a \in AttrPart, g \in GetPart, s \in SetPart}

Has(D, f) == f \in DOMAIN D

IsAccessorDescriptor(Desc) ==
  IF Desc = Undef THEN FALSE
  ELSE IF ~Has(Desc, "get") /\ ~Has(Desc, "set") THEN FALSE
  ELSE TRUE

IsDataDescriptor(Desc) ==
  IF Desc = Undef THEN FALSE
  ELSE IF ~Has(Desc, "value") /\ ~Has(Desc, "writable") THEN FALSE
  ELSE TRUE

IsGenericDescriptor(Desc) ==
  IF Desc = Undef THEN FALSE
  ELSE IF ~IsAccessorDescriptor(Desc) /\ ~IsDataDescriptor(Desc) THEN TRUE
  ELSE FALSE

\* SameValue on the concrete values of the model
SameValue(x, y) == x = y

\* SameValuePartial needs both values concrete
SameValuePartial(x, y) ==
  IF IsAbstract(x) \/ IsAbstract(y) THEN "IntrospectionError"
  ELSE IF SameValue(x, y) THEN "true" ELSE "false"

CompletePropertyDescriptor(Desc) ==
  LET like == [value |-> "undefined", get |-> "undefined", set |-> "undefined",
               writable |-> FALSE, enumerable |-> FALSE, configurable |-> FALSE]
      D1 == IF IsGenericDescriptor(Desc) \/ IsDataDescriptor(Desc)
            THEN (IF ~Has(Desc, "value") THEN [value |-> like.value] ELSE EmptyRec)
                 @@ (IF ~Has(Desc, "writable") THEN [writable |-> like.writable] ELSE EmptyRec)
            ELSE (IF ~Has(Desc, "get") THEN [get |-> like.get] ELSE EmptyRec)
                 @@ (IF ~Has(Desc, "set") THEN [set |-> like.set] ELSE EmptyRec)
      D2 == IF ~Has(Desc, "enumerable") THEN [enumerable |-> like.enumerable] ELSE EmptyRec
      D3 == IF ~Has(Desc, "configurable") THEN [configurable |-> like.configurable] ELSE EmptyRec
  IN Desc @@ D1 @@ D2 @@ D3

(***************************************************************************)
(* The store a call works on: the two maps of O, the two maps of its       *)
(* parent, and the calls made so far into the realm, the generator, setter *)
(* functions and the internal methods of objects.                          *)
(***************************************************************************)
Store == [properties |-> properties, symbols |-> symbols,
          parentProperties |-> parentProperties, parentSymbols |-> parentSymbols,
          isPartial |-> partial, isSimple |-> simple,
          parentIsPartial |-> FALSE, parentIsSimple |-> FALSE,
          recorded |-> <<>>, emitted |-> <<>>, called |-> <<>>, methods |-> <<>>]

\* InternalGetPropertiesMap(O, P).get(InternalGetPropertiesKey(P))
GetBinding(S, P) == IF P \in SymbolKeys THEN S.symbols[P] ELSE S.properties[P]

\* propertyBinding.descriptor = d, in the map InternalGetPropertiesMap selects
SetBinding(S, P, d) ==
  IF P \in SymbolKeys THEN [S EXCEPT !.symbols[P] = d]
  ELSE [S EXCEPT !.properties[P] = d]

\* realm.recordModifiedProperty(binding): the realm sees the binding with the
\* descriptor it holds at the moment of the call
recordModifiedProperty(S, P) ==
  [S EXCEPT !.recorded = Append(@, [key |-> P, descriptor |-> GetBinding(S, P)])]

InternalSetProperty(S, P, desc) ==
  LET S1 == IF GetBinding(S, P) = NoBinding THEN SetBinding(S, P, Undef) ELSE S
      S2 == recordModifiedProperty(S1, P)
  IN SetBinding(S2, P, desc)

Emit(S, e) == [S EXCEPT !.emitted = Append(@, e)]

InternalUpdatedProperty(S, P) ==
  IF kind = "ordinary" THEN S
  ELSE IF ~generator THEN S
  ELSE IF P \in SymbolKeys THEN S
  ELSE
    LET propertyBinding == GetBinding(S, P)
        desc == IF propertyBinding = NoBinding THEN Undef ELSE propertyBinding
    IN IF desc = Undef
       THEN IF kind = "global"
            THEN Emit(S, [op |-> "emitGlobalDelete", key |-> P])
            ELSE Emit(S, [op |-> "emitPropertyDelete", key |-> P])
       ELSE IF ~desc.configurable /\ desc.enumerable /\ kind = "global" /\ Has(desc, "value")
            THEN Emit(S, [op |-> "emitGlobalDeclaration", key |-> P, value |-> desc.value])
       ELSE IF desc.configurable /\ desc.enumerable /\ Has(desc, "value")
            THEN IF kind = "global"
                 THEN Emit(S, [op |-> "emitGlobalAssignment", key |-> P, value |-> desc.value])
                 ELSE Emit(S, [op |-> "emitPropertyAssignment", key |-> P, value |-> desc.value])
       ELSE Emit(S, [op |-> "emitDefineProperty", key |-> P, desc |-> desc])

\* O is neither partial nor exotic here: the own descriptor is a copy of the
\* stored one
\* AbstractValue.throwIntrospectionError(O, P), as what the caller gets
IntrospectionError == [thrown |-> "IntrospectionError"]

\* O.isPartial() && !O.isSimple(), for the object whose maps the store S
\* works on; an object the store tells nothing about is not partial
isPartialNotSimple(S) == Has(S, "isPartial") /\ S.isPartial /\ ~S.isSimple

\* OrdinaryGetOwnProperty that takes a key with no binding for an absent
\* property whatever the object is
OrdinaryGetOwnPropertyAssertsAbsence(S, P) ==
  LET existingBinding == GetBinding(S, P)
  IN IF existingBinding = NoBinding THEN Undef
     ELSE IF existingBinding = Undef THEN Undef
     ELSE LET X == existingBinding
          IN IF IsDataDescriptor(X)
             THEN [value |-> X.value, writable |-> X.writable,
                   enumerable |-> X.enumerable, configurable |-> X.configurable]
             ELSE [get |-> X.get, set |-> X.set,
                   enumerable |-> X.enumerable, configurable |-> X.configurable]

\* ECMA262 9.1.5.1; the values stored in a partial object are concrete or
\* already resolved, so that step 5 derives no new value
OrdinaryGetOwnProperty(S, P) ==
  LET existingBinding == GetBinding(S, P)
  IN IF existingBinding = NoBinding
     THEN IF isPartialNotSimple(S) THEN IntrospectionError ELSE Undef
     ELSE IF existingBinding = Undef THEN Undef
     ELSE LET X == existingBinding
          IN IF IsDataDescriptor(X)
             THEN [value |-> X.value, writable |-> X.writable,
                   enumerable |-> X.enumerable, configurable |-> X.configurable]
             ELSE [get |-> X.get, set |-> X.set,
                   enumerable |-> X.enumerable, configurable |-> X.configurable]

Ret(r, S) == [result |-> r, S |-> S]


\* Identical with the two descriptors compared as wholes
IdenticalWhole(Desc, current) == Desc = current

\* step 4 of ValidateAndApplyPropertyDescriptor: every field of Desc occurs
\* in current with the same value (SameValue on concrete values, reference
\* equality as soon as one of the two is abstract)
Identical(Desc, current) ==
  \A field \in DOMAIN Desc :
    IF ~Has(current, field) THEN FALSE
    ELSE LET dval == Desc[field]
             cval == current[field]
         IN IF field \in {"value", "get", "set"}
            THEN IF ~IsAbstract(dval) /\ ~IsAbstract(cval)
                 THEN SameValue(dval, cval)
                 ELSE dval = cval
            ELSE SameValue(dval, cval)

\* step 10.a: for each field of Desc, property[field] = Desc[field]
AssignFields(property, Desc) ==
  [f \in DOMAIN property \cup DOMAIN Desc |->
     IF Has(Desc, f) THEN Desc[f] ELSE property[f]]

\* step 7.b.i / 7.c.i: the stored descriptor is converted in place
ConvertToAccessor(desc) ==
  [f \in (DOMAIN desc \ {"writable", "value"}) \cup {"get", "set"} |->
     IF f \in {"get", "set"} THEN "undefined" ELSE desc[f]]

\* ConvertToData with "desc.writable = true"
ConvertToDataWritable(desc) ==
  [f \in (DOMAIN desc \ {"get", "set"}) \cup {"writable", "value"} |->
     IF f = "writable" THEN TRUE ELSE IF f = "value" THEN "undefined" ELSE desc[f]]

\* ConvertToData without "desc.writable = false"
ConvertToDataNoWritable(desc) ==
  [f \in (DOMAIN desc \ {"get", "set"}) \cup {"value"} |->
     IF f = "value" THEN "undefined" ELSE desc[f]]

ConvertToData(desc) ==
  [f \in (DOMAIN desc \ {"get", "set"}) \cup {"writable", "value"} |->
     IF f = "writable" THEN FALSE ELSE IF f = "value" THEN "undefined" ELSE desc[f]]

\* steps 7.b and 7.c, O supplied
ConvertProperty(S, P, current) ==
  LET desc == GetBinding(S, P)
  IN IF desc = Undef THEN S
     ELSE IF IsDataDescriptor(current)
          THEN SetBinding(S, P, ConvertToAccessor(desc))
          ELSE SetBinding(S, P, ConvertToData(desc))

\* step 10, O supplied
ApplyDescriptor(S, P, Desc, current) ==
  LET propertyBinding == GetBinding(S, P)
      S1 == IF propertyBinding = NoBinding
            THEN SetBinding(recordModifiedProperty(SetBinding(S, P, Undef), P), P, current)
            ELSE IF propertyBinding = Undef
                 THEN SetBinding(recordModifiedProperty(S, P), P, current)
                 ELSE recordModifiedProperty(S, P)
      S2 == SetBinding(S1, P, AssignFields(GetBinding(S1, P), Desc))
  IN InternalUpdatedProperty(S2, P)

\* RejectsAttributes without step 5.b
RejectsAttributesNoEnum(Desc, current) ==
  IF ~current.configurable
  THEN Has(Desc, "configurable") /\ Desc.configurable
  ELSE FALSE

\* step 5: a non-configurable property keeps its configurable and enumerable
RejectsAttributes(Desc, current) ==
  IF ~current.configurable
  THEN IF Has(Desc, "configurable") /\ Desc.configurable THEN TRUE
       ELSE IF Has(Desc, "enumerable") /\ Desc.enumerable # current.enumerable THEN TRUE
       ELSE FALSE
  ELSE FALSE

\* step 7.a: a change of kind needs a configurable property
ValidateKindChange(Desc, current) ==
  IF ~current.configurable THEN "false" ELSE "ok"

\* ValidateData without step 8.a.ii
ValidateDataNoValue(Desc, current) ==
  IF ~current.configurable
  THEN IF ~current.writable /\ Has(Desc, "writable") /\ Desc.writable THEN "false"
       ELSE "ok"
  ELSE "ok"

\* step 8: data to data
ValidateData(Desc, current) ==
  IF ~current.configurable
  THEN IF ~current.writable /\ Has(Desc, "writable") /\ Desc.writable THEN "false"
       ELSE IF ~current.writable /\ Has(Desc, "value")
            THEN LET same == SameValuePartial(Desc.value, current.value)
                 IN IF same = "true" THEN "ok" ELSE same
            ELSE "ok"
  ELSE "ok"

\* ValidateAccessor without step 9.a.ii
ValidateAccessorSetOnly(Desc, current) ==
  IF ~current.configurable
  THEN LET sameSet == IF Has(Desc, "set")
                      THEN SameValuePartial(Desc.set, current.set) ELSE "true"
       IN IF sameSet # "true" THEN sameSet ELSE "ok"
  ELSE "ok"

\* step 9: accessor to accessor
ValidateAccessor(Desc, current) ==
  IF ~current.configurable
  THEN LET sameSet == IF Has(Desc, "set")
                      THEN SameValuePartial(Desc.set, current.set) ELSE "true"
           sameGet == IF Has(Desc, "get")
                      THEN SameValuePartial(Desc.get, current.get) ELSE "true"
       IN IF sameSet # "true" THEN sameSet
          ELSE IF sameGet # "true" THEN sameGet
          ELSE "ok"
  ELSE "ok"

\* steps 5 to 9: "false", "IntrospectionError", or "ok" when the change is allowed
ValidateChange(Desc, current) ==
  IF RejectsAttributes(Desc, current) THEN "false"
  ELSE IF IsGenericDescriptor(Desc) THEN "ok"
  ELSE IF IsDataDescriptor(current) # IsDataDescriptor(Desc)
       THEN ValidateKindChange(Desc, current)
  ELSE IF IsDataDescriptor(current) /\ IsDataDescriptor(Desc)
       THEN ValidateData(Desc, current)
  ELSE ValidateAccessor(Desc, current)

\* NewDataProperty with writable true by default
NewDataPropertyWritable(Desc) ==
  [value |-> IF Has(Desc, "value") THEN Desc.value ELSE "undefined",
   writable |-> IF Has(Desc, "writable") THEN Desc.writable ELSE TRUE,
   enumerable |-> IF Has(Desc, "enumerable") THEN Desc.enumerable ELSE FALSE,
   configurable |-> IF Has(Desc, "configurable") THEN Desc.configurable ELSE FALSE]

\* step 2.c.i: the data property created from Desc
NewDataProperty(Desc) ==
  [value |-> IF Has(Desc, "value") THEN Desc.value ELSE "undefined",
   writable |-> IF Has(Desc, "writable") THEN Desc.writable ELSE FALSE,
   enumerable |-> IF Has(Desc, "enumerable") THEN Desc.enumerable ELSE FALSE,
   configurable |-> IF Has(Desc, "configurable") THEN Desc.configurable ELSE FALSE]

\* step 2.d.i: the accessor property created from Desc
NewAccessorProperty(Desc) ==
  [get |-> IF Has(Desc, "get") THEN Desc.get ELSE "undefined",
   set |-> IF Has(Desc, "set") THEN Desc.set ELSE "undefined",
   enumerable |-> IF Has(Desc, "enumerable") THEN Desc.enumerable ELSE FALSE,
   configurable |-> IF Has(Desc, "configurable") THEN Desc.configurable ELSE FALSE]

\* ECMA262 9.1.6.3.  O is "O" or "undefined" (IsCompatiblePropertyDescriptor)
ValidateAndApplyPropertyDescriptor(S, O, P, ext, Desc, current) ==
  IF current = Undef
  THEN IF ~ext THEN Ret("false", S)
       ELSE IF IsGenericDescriptor(Desc) \/ IsDataDescriptor(Desc)
            THEN IF O # "undefined"
                 THEN Ret("true", InternalUpdatedProperty(
                                    InternalSetProperty(S, P, NewDataProperty(Desc)), P))
                 ELSE Ret("true", S)
            ELSE IF O # "undefined"
                 THEN Ret("true", InternalUpdatedProperty(
                                    InternalSetProperty(S, P, NewAccessorProperty(Desc)), P))
                 ELSE Ret("true", S)
  ELSE IF Has(current, "value") /\ mightHaveBeenDeleted(current.value)
       THEN Ret("IntrospectionError", S)
  ELSE IF DOMAIN Desc = {} THEN Ret("true", S)
  ELSE IF Identical(Desc, current) THEN Ret("true", S)
  ELSE LET v == ValidateChange(Desc, current)
       IN IF v # "ok" THEN Ret(v, S)
          ELSE IF O = "undefined" THEN Ret("true", S)
          ELSE LET S1 == IF ~IsGenericDescriptor(Desc)
                            /\ IsDataDescriptor(current) # IsDataDescriptor(Desc)
                         THEN ConvertProperty(S, P, current)
                         ELSE S
               IN Ret("true", ApplyDescriptor(S1, P, Desc, current))

\* ECMA262 9.1.6.2
IsCompatiblePropertyDescriptor(S, ext, Desc, current) ==
  ValidateAndApplyPropertyDescriptor(S, "undefined", "undefined", ext, Desc, current)

\* OrdinaryDefineOwnProperty that does not read the [[Extensible]] slot
OrdinaryDefineOwnPropertyAlwaysExtensible(S, P, Desc) ==
  LET current == OrdinaryGetOwnProperty(S, P)
  IN IF current = IntrospectionError THEN Ret("IntrospectionError", S)
     ELSE ValidateAndApplyPropertyDescriptor(S, "O", P, TRUE, Desc, current)

\* ECMA262 9.1.6.1
OrdinaryDefineOwnProperty(S, P, Desc) ==
  LET current == OrdinaryGetOwnProperty(S, P)
  IN IF current = IntrospectionError THEN Ret("IntrospectionError", S)
     ELSE ValidateAndApplyPropertyDescriptor(S, "O", P, extensible, Desc, current)

\* OrdinaryDelete without the call of InternalUpdatedProperty
OrdinaryDeleteSilent(S, P) ==
  LET desc == OrdinaryGetOwnProperty(S, P)
  IN IF desc = IntrospectionError THEN Ret("IntrospectionError", S)
     ELSE IF desc = Undef THEN Ret("true", S)
     ELSE IF desc.configurable
          THEN Ret("true", SetBinding(recordModifiedProperty(S, P), P, Undef))
          ELSE Ret("false", S)

\* OrdinaryDelete that takes the binding out of the map
OrdinaryDeleteRemovesBinding(S, P) ==
  LET desc == OrdinaryGetOwnProperty(S, P)
  IN IF desc = IntrospectionError THEN Ret("IntrospectionError", S)
     ELSE IF desc = Undef THEN Ret("true", S)
     ELSE IF desc.configurable
          THEN Ret("true", InternalUpdatedProperty(
                             SetBinding(recordModifiedProperty(S, P), P, NoBinding), P))
          ELSE Ret("false", S)

\* ECMA262 9.1.10.1
OrdinaryDelete(S, P) ==
  LET desc == OrdinaryGetOwnProperty(S, P)
  IN IF desc = IntrospectionError THEN Ret("IntrospectionError", S)
     ELSE IF desc = Undef THEN Ret("true", S)
     ELSE IF desc.configurable
          THEN Ret("true", InternalUpdatedProperty(
                             SetBinding(recordModifiedProperty(S, P), P, Undef), P))
          ELSE Ret("false", S)


\* the store with the maps of O and of its parent exchanged
Swap(S) ==
  [S EXCEPT !.properties = S.parentProperties, !.symbols = S.parentSymbols,
            !.parentProperties = S.properties, !.parentSymbols = S.symbols,
            !.isPartial = S.parentIsPartial, !.isSimple = S.parentIsSimple,
            !.parentIsPartial = S.isPartial, !.parentIsSimple = S.isSimple]

\* the store in which the maps of object O are the ones the operations of
\* the protocol work on
On(O, S) == IF O = "parent" THEN Swap(S) ELSE S

\* an internal method of an object is called
Log(S, entry) == [S EXCEPT !.methods = Append(@, entry)]

PrototypeOf(O) == IF O = "O" THEN prototype ELSE "null"
ExtensibleOf(O) == IF O = "O" THEN extensible ELSE parentExtensible

\* O.$GetOwnProperty(P)
GetOwnPropertyOf(S, O, P) == OrdinaryGetOwnProperty(On(O, S), P)

\* O.$DefineOwnProperty(P, Desc)
DefineOwnPropertyOf(S, O, P, Desc) ==
  IF O = "O" THEN OrdinaryDefineOwnProperty(S, P, Desc)
  ELSE LET T == On(O, S)
           r == IF OrdinaryGetOwnProperty(T, P) = IntrospectionError
                THEN Ret("IntrospectionError", T)
                ELSE ValidateAndApplyPropertyDescriptor(T, "O", P, ExtensibleOf(O), Desc,
                                                        OrdinaryGetOwnProperty(T, P))
       IN Ret(r.result, On(O, r.S))

\* O.$Delete(P)
DeleteOf(S, O, P) ==
  LET r == OrdinaryDelete(On(O, S), P)
  IN Ret(r.result, On(O, r.S))

\* ECMA262 7.3.4: O.[[DefineOwnProperty]](P, {V, true, true, true})
CreateDataProperty(S, O, P, V) ==
  LET newDesc == [value |-> V, writable |-> TRUE, enumerable |-> TRUE,
                  configurable |-> TRUE]
  IN DefineOwnPropertyOf(
       Log(S, [method |-> "$DefineOwnProperty", on |-> O, Desc |-> newDesc,
               current |-> GetOwnPropertyOf(S, O, P)]),
       O, P, newDesc)

\* Call(setter, Receiver, <<V>>)
Call(S, F, thisArg, V) ==
  [S EXCEPT !.called = Append(@, [func |-> F, this |-> thisArg, arg |-> V])]

\* Determines if an object with parent O may create its own property P
RECURSIVE parentPermitsChildPropertyCreation(_, _, _)
parentPermitsChildPropertyCreation(S, O, P) ==
  LET ownDesc == GetOwnPropertyOf(S, O, P)
      ownDescValue == IF ownDesc = Undef THEN "undefined"
                      ELSE IF ~Has(ownDesc, "value") THEN "undefined" ELSE ownDesc.value
      parent == PrototypeOf(O)
  IN IF (ownDesc = Undef \/ mightHaveBeenDeleted(ownDescValue))
        /\ parent # "null" /\ ~parentPermitsChildPropertyCreation(S, parent, P)
     THEN FALSE
     ELSE IF ownDesc = Undef THEN TRUE
     ELSE IF IsDataDescriptor(ownDesc) /\ ownDesc.writable THEN TRUE
     ELSE FALSE

\* ReceiverRefuses without step 4.d.ii
ReceiverRefusesAccessorOnly(existingDescriptor, existingDescValue, weakDeletion) ==
  IF IsAccessorDescriptor(existingDescriptor) THEN "false"
  ELSE "ok"

\* steps 4.d.i and 4.d.ii of OrdinarySet: what Receiver's own descriptor
\* says to the write
ReceiverRefuses(existingDescriptor, existingDescValue, weakDeletion) ==
  IF IsAccessorDescriptor(existingDescriptor) THEN "false"
  ELSE IF ~existingDescriptor.writable
          /\ ~(weakDeletion /\ existingDescriptor.configurable)
       THEN IF mightHaveBeenDeleted(existingDescValue)
            THEN "IntrospectionError"
            ELSE "false"
  ELSE "ok"

\* DeleteFirst that never calls Receiver.$Delete
DeleteFirstNever(S, Receiver, P, weakDeletion, existingDescValue) == S

\* step 4.d.iv of OrdinarySet: Receiver.$Delete(P) when it is not sure that
\* Receiver has the property
DeleteFirst(S, Receiver, P, weakDeletion, existingDescValue) ==
  IF weakDeletion \/ mightHaveBeenDeleted(existingDescValue)
  THEN LET d == DeleteOf(S, Receiver, P)
       IN Log(d.S, [method |-> "$Delete", on |-> Receiver, result |-> d.result])
  ELSE S

\* step 4 of OrdinarySet: ownDesc is a data descriptor
OrdinarySetData(S, P, V, Receiver, ownDesc, ownDescValue) ==
  LET weakDeletion == mightHaveBeenDeleted(V)
  IN IF ~ownDesc.writable /\ ~weakDeletion
     THEN IF mightHaveBeenDeleted(ownDescValue)
          THEN Ret("IntrospectionError", S)
          ELSE Ret("false", S)
     ELSE IF Receiver = "primitive" THEN Ret("false", S)
     ELSE LET existingDescriptor == GetOwnPropertyOf(S, Receiver, P)
              existingDescValue ==
                IF existingDescriptor = Undef THEN "undefined"
                ELSE IF ~Has(existingDescriptor, "value") THEN "undefined"
                ELSE existingDescriptor.value
          IN IF existingDescriptor # Undef
             THEN LET refused == ReceiverRefuses(existingDescriptor, existingDescValue,
                                                 weakDeletion)
                  IN IF refused # "ok" THEN Ret(refused, S)
                     ELSE LET valueDesc == IF weakDeletion
                                           THEN [existingDescriptor EXCEPT !.value = V]
                                           ELSE [value |-> V]
                              S1 == DeleteFirst(S, Receiver, P, weakDeletion,
                                                existingDescValue)
                          IN DefineOwnPropertyOf(
                               Log(S1, [method |-> "$DefineOwnProperty", on |-> Receiver,
                                        Desc |-> valueDesc,
                                        current |-> GetOwnPropertyOf(S1, Receiver, P)]),
                               Receiver, P, valueDesc)
             ELSE CreateDataProperty(S, Receiver, P, V)

\* OrdinarySetAccessor that passes the holder of the accessor as this value
OrdinarySetAccessorOnHolder(S, O, V, Receiver, ownDesc) ==
  LET setter == IF Has(ownDesc, "set") THEN ownDesc.set ELSE "undefined"
  IN IF setter = "undefined" THEN Ret("false", S)
     ELSE Ret("true", Call(S, setter, O, V))

\* steps 5 to 9 of OrdinarySet: ownDesc, found on O, is an accessor descriptor
OrdinarySetAccessor(S, O, V, Receiver, ownDesc) ==
  LET setter == IF Has(ownDesc, "set") THEN ownDesc.set ELSE "undefined"
  IN IF setter = "undefined" THEN Ret("false", S)
     ELSE Ret("true", Call(S, setter, Receiver, V))

\* step 3 of OrdinarySet with the parent's opinion left unasked
UncertainOwnNoParent(S, O, P, ownDescValue) == "carry on"

\* step 3.b of OrdinarySet for an own descriptor whose value might have been
\* deleted: give up unless the parent permits the creation
UncertainOwn(S, O, P, ownDescValue) ==
  IF PrototypeOf(O) # "null"
     /\ ~parentPermitsChildPropertyCreation(S, PrototypeOf(O), P)
  THEN "IntrospectionError"
  ELSE "carry on"

\* OrdinarySet that never asks the prototype
OrdinarySetOwnOnly(S, O, P, V, Receiver) ==
  LET own == GetOwnPropertyOf(S, O, P)
      ownDescValue == IF own = Undef THEN "undefined"
                      ELSE IF ~Has(own, "value") THEN "undefined" ELSE own.value
      ownDesc == IF own = Undef
                 THEN [value |-> "undefined", writable |-> TRUE,
                       enumerable |-> TRUE, configurable |-> TRUE]
                 ELSE own
  IN IF own = IntrospectionError THEN Ret("IntrospectionError", S)
     ELSE IF IsDataDescriptor(ownDesc)
     THEN OrdinarySetData(S, P, V, Receiver, ownDesc, ownDescValue)
     ELSE OrdinarySetAccessor(S, O, V, Receiver, ownDesc)

\* ECMA262 9.1.9.1
RECURSIVE OrdinarySet(_, _, _, _, _)
OrdinarySet(S, O, P, V, Receiver) ==
  LET own == GetOwnPropertyOf(S, O, P)
      ownDescValue == IF own = Undef THEN "undefined"
                      ELSE IF ~Has(own, "value") THEN "undefined" ELSE own.value
      askParent == own = Undef \/ mightHaveBeenDeleted(ownDescValue)
      parent == PrototypeOf(O)
      S1 == IF askParent THEN Log(S, [method |-> "$GetPrototypeOf", on |-> O]) ELSE S
      ownDesc == IF own = Undef
                 THEN [value |-> "undefined", writable |-> TRUE,
                       enumerable |-> TRUE, configurable |-> TRUE]
                 ELSE own
  IN IF own = IntrospectionError THEN Ret("IntrospectionError", S)
     ELSE IF askParent /\ parent # "null" /\ own = Undef
     THEN OrdinarySet(Log(S1, [method |-> "$Set", on |-> parent, P |-> P, V |-> V,
                               Receiver |-> Receiver]),
                      parent, P, V, Receiver)
     ELSE IF askParent /\ UncertainOwn(S1, O, P, ownDescValue) = "IntrospectionError"
     THEN Ret("IntrospectionError", S1)
     ELSE IF IsDataDescriptor(ownDesc)
     THEN OrdinarySetData(S1, P, V, Receiver, ownDesc, ownDescValue)
     ELSE OrdinarySetAccessor(S1, O, V, Receiver, ownDesc)

(***************************************************************************)
(* The client program: it calls one operation of the protocol on key, and  *)
(* then takes the result.                                                  *)
(***************************************************************************)
NoCall == [op |-> "none", P |-> "x", Desc |-> EmptyRec, V |-> "undefined",
           Receiver |-> "O", result |-> "none",
           recorded |-> <<>>, emitted |-> <<>>, called |-> <<>>, methods |-> <<>>,
           properties |-> [k \in StringKeys |-> NoBinding],
           symbols |-> [k \in SymbolKeys |-> NoBinding],
           parentProperties |-> [k \in StringKeys |-> NoBinding],
           parentSymbols |-> [k \in SymbolKeys |-> NoBinding]]

\* the record of a call that returned r from the current state
Returned(name, P, Desc, V, Receiver, r) ==
  [op |-> name, P |-> P, Desc |-> Desc, V |-> V, Receiver |-> Receiver,
   result |-> r.result, recorded |-> r.S.recorded, emitted |-> r.S.emitted,
   called |-> r.S.called, methods |-> r.S.methods,
   properties |-> properties, symbols |-> symbols,
   parentProperties |-> parentProperties, parentSymbols |-> parentSymbols]

Finish(name, P, Desc, V, Receiver, r) ==
  /\ properties' = r.S.properties
  /\ symbols' = r.S.symbols
  /\ last' = Returned(name, P, Desc, V, Receiver, r)
  /\ parentProperties' = r.S.parentProperties
  /\ parentSymbols' = r.S.parentSymbols
  /\ pc' = "returned"
  /\ UNCHANGED <<kind, generator, key, extensible, callVars, prototype, parentExtensible,
                 stringVars, restVars>>

\* an environment binding name; a slot of a modified set no one has touched
EnvNames == {"b"}
Unmodified == [unmodified |-> TRUE]

\* realm.modifiedProperties and realm.modifiedBindings are undefined: nothing
\* is captured
NoCapture ==
  [capture |-> FALSE,
   modifiedProperties |-> [k \in Keys |-> Unmodified],
   modifiedBindings |-> [n \in EnvNames |-> Unmodified]]

\* the snapshot of the bindings a region starts from
Snapshot(props, syms, e) == [properties |-> props, symbols |-> syms, env |-> e]

\* no function is being called
NoCallState ==
  /\ callee = "none"
  /\ realm = NoCapture
  /\ env = [n \in EnvNames |-> [value |-> "undefined"]]
  /\ regionStart = Snapshot(properties, symbols, env)

\* O.$Prototype is null
NoParent ==
  /\ prototype = "null"
  /\ parentProperties = [k \in StringKeys |-> NoBinding]
  /\ parentSymbols = [k \in SymbolKeys |-> NoBinding]
  /\ parentExtensible = TRUE

\* O is not a String object
NoString ==
  /\ StringData = <<>>
  /\ keyOrder = [properties |-> <<>>, symbols |-> <<>>]

\* no enumeration of O has been started
NoIterator == [created |-> FALSE]
NoEnumeration ==
  /\ parentKeyOrder = [properties |-> <<>>, symbols |-> <<>>]
  /\ iterator = NoIterator

\* no function has been called
NoContexts ==
  /\ contextStack = <<[id |-> 0]>>
  /\ environments = <<>>

\* O is not partial, no loop is being evaluated, and no object has a
\* prototype set
NoLoop == [pc |-> "none"]
Objects == {"A", "B", "C"}
NoChains == [o \in Objects |-> [Prototype |-> "null", Extensible |-> TRUE]]
NotPartial ==
  /\ partial = FALSE
  /\ simple = FALSE
  /\ loop = NoLoop
  /\ heap = NoChains

RestIdle ==
  /\ NoEnumeration
  /\ NoContexts
  /\ NotPartial

\* what the keys other than key may hold from the start
OtherProperty ==
  [value |-> "v1", writable |-> TRUE, enumerable |-> TRUE, configurable |-> TRUE]

Init ==
  /\ kind \in {"ordinary", "intrinsic", "global"}
  /\ generator \in BOOLEAN
  /\ key \in Keys
  /\ extensible = TRUE
  /\ \E other \in {NoBinding, OtherProperty} :
       /\ properties = [k \in StringKeys |-> IF k = key THEN NoBinding ELSE other]
       /\ symbols = [k \in SymbolKeys |-> IF k = key THEN NoBinding ELSE other]
  /\ pc = "idle"
  /\ last = NoCall
  /\ NoCallState
  /\ NoParent
  /\ NoString
  /\ RestIdle

DefineOwnProperty ==
  /\ pc = "idle"
  /\ \E Desc \in Descs :
       Finish("DefineOwnProperty", key, Desc, "undefined", "O",
              OrdinaryDefineOwnProperty(Store, key, Desc))

Delete ==
  /\ pc = "idle"
  /\ Finish("Delete", key, EmptyRec, "undefined", "O", OrdinaryDelete(Store, key))

SetProperty ==
  /\ pc = "idle"
  /\ \E V \in Values, Receiver \in Receivers :
       Finish("Set", key, EmptyRec, V, Receiver, OrdinarySet(Store, "O", key, V, Receiver))

GetOwnProperty ==
  /\ pc = "idle"
  /\ Finish("GetOwnProperty", key, OrdinaryGetOwnProperty(Store, key), "undefined", "O",
            Ret("true", Store))

IsCompatible ==
  /\ pc = "idle"
  /\ \E Desc \in Descs, ext \in BOOLEAN :
       Finish("IsCompatiblePropertyDescriptor", key, Desc, "undefined", "O",
              IsCompatiblePropertyDescriptor(Store, ext, Desc, OrdinaryGetOwnProperty(Store, key)))

\* O.[[PreventExtensions]]()
PreventExtensions ==
  /\ pc = "idle"
  /\ extensible
  /\ extensible' = FALSE
  /\ UNCHANGED <<kind, generator, key, properties, symbols, pc, last, callVars, protoVars, stringVars, restVars>>

\* the client takes the result and goes on
Continue ==
  /\ pc = "returned"
  /\ pc' = "idle"
  /\ last' = NoCall
  /\ UNCHANGED <<kind, generator, key, extensible, properties, symbols, callVars,
                 protoVars, stringVars, restVars>>

Next ==
  \/ DefineOwnProperty
  \/ Delete
  \/ SetProperty
  \/ GetOwnProperty
  \/ IsCompatible
  \/ PreventExtensions
  \/ Continue

Spec == Init /\ [][Next]_vars


(***************************************************************************)
(* The call evaluator (methods/call.js).  The body of callee is evaluated: *)
(* its mutations go through the property protocol and, once the evaluator  *)
(* has started a capture region, into the realm's modified sets.  Then     *)
(* OrdinaryCallEvaluateBody classifies the completion of the body.         *)
(***************************************************************************)
\* realm.recordModifiedProperty: the first touch of a binding within the
\* region puts it into the modified set with the descriptor it holds
ModifiedProperty(R, rec) ==
  IF ~R.capture THEN R
  ELSE IF R.modifiedProperties[rec.key] # Unmodified THEN R
  ELSE [R EXCEPT !.modifiedProperties[rec.key] = rec.descriptor]

RECURSIVE ModifiedProperties(_, _)
ModifiedProperties(R, recorded) ==
  IF recorded = <<>> THEN R
  ELSE ModifiedProperties(ModifiedProperty(R, Head(recorded)), Tail(recorded))

\* realm.recordModifiedBinding
ModifiedBinding(R, n, binding) ==
  IF ~R.capture THEN R
  ELSE IF R.modifiedBindings[n] # Unmodified THEN R
  ELSE [R EXCEPT !.modifiedBindings[n] = binding]

\* the state OrdinaryCallEvaluateBody works on, and the calls it makes into
\* the realm
CallState ==
  [properties |-> properties, symbols |-> symbols, env |-> env,
   realm |-> realm, calls |-> <<>>]

get_captured_effects(T) ==
  IF T.realm.capture
  THEN [b |-> T.realm.modifiedBindings, p |-> T.realm.modifiedProperties]
  ELSE Undef

stop_effect_capture(T) ==
  [T EXCEPT !.realm = NoCapture, !.calls = Append(@, [op |-> "stop_effect_capture"])]

\* every binding of the modified set gets back the value the set holds
restoreBindings(T, b) ==
  [T EXCEPT !.env = [n \in EnvNames |-> IF b[n] # Unmodified THEN b[n] ELSE @[n]],
            !.calls = Append(@, [op |-> "restoreBindings"])]

\* every property binding of the modified set gets back the descriptor the
\* set holds
restoreProperties(T, p) ==
  [T EXCEPT !.properties = [k \in DOMAIN @ |-> IF p[k] # Unmodified THEN p[k] ELSE @[k]],
            !.symbols = [k \in DOMAIN @ |-> IF p[k] # Unmodified THEN p[k] ELSE @[k]],
            !.calls = Append(@, [op |-> "restoreProperties"])]

\* the restore exchanges: the modified sets of e now hold what the bindings
\* held in T, the state the region ended in
Exchanged(T, e) ==
  [b |-> [n \in EnvNames |-> IF e.b[n] # Unmodified THEN T.env[n] ELSE Unmodified],
   p |-> [k \in Keys |-> IF e.p[k] # Unmodified THEN GetBinding(T, k) ELSE Unmodified]]

\* realm.apply_effects: the bindings of the effects take the values the
\* effects hold
apply_effects(T, effects) ==
  [T EXCEPT !.env = [n \in EnvNames |->
                       IF effects.b[n] # Unmodified THEN effects.b[n] ELSE @[n]],
            !.properties = [k \in DOMAIN @ |->
                              IF effects.p[k] # Unmodified THEN effects.p[k] ELSE @[k]],
            !.symbols = [k \in DOMAIN @ |->
                           IF effects.p[k] # Unmodified THEN effects.p[k] ELSE @[k]],
            !.calls = Append(@, [op |-> "apply_effects", b |-> effects.b, p |-> effects.p])]

\* what a binding holds after the join of the normal path d1 and the abrupt
\* path d2
JoinedBinding(d1, d2) ==
  IF d1 = Unmodified /\ d2 = Unmodified THEN Unmodified
  ELSE [joined |-> <<d1, d2>>]

joinEffectsAndRemoveNestedReturnCompletions(c, e) ==
  [completion |-> [type |-> "ReturnCompletion"],
   b |-> [n \in EnvNames |-> JoinedBinding(e.b[n], c.b[n])],
   p |-> [k \in Keys |-> JoinedBinding(e.p[k], c.p[k])]]

CallRet(r, T) == [result |-> r, T |-> T]

\* ClassifyCompletion that returns a Value or AbruptCompletion without
\* applying the captured effects
ClassifyCompletionNoApply(T, c, e) ==
  IF c.type = "JoinedAbruptCompletions"
  THEN CallRet([type |-> "IntrospectionError"], IF e # Undef THEN apply_effects(T, e) ELSE T)
  ELSE IF c.type = "ComposedAbruptCompletion"
  THEN CallRet([type |-> "IntrospectionError"], IF e # Undef THEN apply_effects(T, e) ELSE T)
  ELSE IF c.type = "PossiblyNormalCompletion"
  THEN IF e = Undef THEN CallRet([type |-> "InvariantViolation"], T)
       ELSE LET joinedEffects == joinEffectsAndRemoveNestedReturnCompletions(c, e)
            IN CallRet(joinedEffects.completion, apply_effects(T, joinedEffects))
  ELSE CallRet(c, T)

\* the classification of the completion c of the body; e is the captured
\* effects, or undefined
ClassifyCompletion(T, c, e) ==
  IF c.type = "JoinedAbruptCompletions"
  THEN CallRet([type |-> "IntrospectionError"], IF e # Undef THEN apply_effects(T, e) ELSE T)
  ELSE IF c.type = "ComposedAbruptCompletion"
  THEN CallRet([type |-> "IntrospectionError"], IF e # Undef THEN apply_effects(T, e) ELSE T)
  ELSE IF c.type = "PossiblyNormalCompletion"
  THEN IF e = Undef THEN CallRet([type |-> "InvariantViolation"], T)
       ELSE LET joinedEffects == joinEffectsAndRemoveNestedReturnCompletions(c, e)
            IN CallRet(joinedEffects.completion, apply_effects(T, joinedEffects))
  ELSE CallRet(c, IF e # Undef THEN apply_effects(T, e) ELSE T)

\* ECMA262 9.2.1.3.  Fk is the kind of F, c the completion of its body (of
\* its callback when F is native)
OrdinaryCallEvaluateBody(T, Fk, c) ==
  IF Fk = "native" THEN CallRet(c, T)
  ELSE IF Fk = "generator" THEN CallRet([type |-> "ReturnCompletion"], T)
  ELSE LET e == get_captured_effects(T)
       IN IF e # Undef
          THEN ClassifyCompletion(
                 restoreProperties(restoreBindings(stop_effect_capture(T), e.b), e.p),
                 c, Exchanged(T, e))
          ELSE ClassifyCompletion(T, c, e)

\* the completions a body can end in.  A PossiblyNormalCompletion carries
\* the effects of its abrupt path and needs a capture region.
CompletionTypes ==
  {"Value", "ThrowCompletion", "ReturnCompletion",
   "JoinedAbruptCompletions", "ComposedAbruptCompletion"}

AbruptEffects ==
  {[b |-> [n \in EnvNames |-> Unmodified],
    p |-> [k \in Keys |-> IF k = key THEN d ELSE Unmodified]] :
     d \in {Unmodified, Undef, OtherProperty}}

Completions ==
  IF callee = "native" THEN {[type |-> t] : t \in {"Value", "ThrowCompletion"}}
  ELSE {[type |-> t] : t \in CompletionTypes}
       \cup (IF realm.capture
             THEN {[type |-> "PossiblyNormalCompletion", b |-> a.b, p |-> a.p] :
                     a \in AbruptEffects}
             ELSE {})

InitCall ==
  /\ kind = "ordinary"
  /\ generator = FALSE
  /\ key \in Keys
  /\ extensible = TRUE
  /\ properties = [k \in StringKeys |-> NoBinding]
  /\ symbols = [k \in SymbolKeys |-> NoBinding]
  /\ pc = "body"
  /\ last = NoCall
  /\ callee \in {"native", "generator", "ordinary"}
  /\ realm = NoCapture
  /\ env = [n \in EnvNames |-> [value |-> "undefined"]]
  /\ regionStart = Snapshot(properties, symbols, env)
  /\ NoParent
  /\ NoString
  /\ RestIdle

\* the body has called an operation of the property protocol
BodyUpdate(r) ==
  /\ r.result # "IntrospectionError"
  /\ properties' = r.S.properties
  /\ symbols' = r.S.symbols
  /\ realm' = ModifiedProperties(realm, r.S.recorded)
  /\ UNCHANGED <<kind, generator, key, extensible, pc, last, callee, env, regionStart,
                 protoVars, stringVars, restVars>>

BodyDefine ==
  /\ pc = "body" /\ callee # "generator"
  /\ \E Desc \in Descs : BodyUpdate(OrdinaryDefineOwnProperty(Store, key, Desc))

BodyDelete ==
  /\ pc = "body" /\ callee # "generator"
  /\ BodyUpdate(OrdinaryDelete(Store, key))

BodySet ==
  /\ pc = "body" /\ callee # "generator"
  /\ \E V \in Values : BodyUpdate(OrdinarySet(Store, "O", key, V, "O"))

\* the body assigns to an environment binding
BodyAssign ==
  /\ pc = "body" /\ callee # "generator"
  /\ \E n \in EnvNames, v \in {"undefined", "v1"} :
       /\ env[n].value # v
       /\ realm' = ModifiedBinding(realm, n, env[n])
       /\ env' = [env EXCEPT ![n] = [value |-> v]]
  /\ UNCHANGED <<kind, generator, key, extensible, properties, symbols, pc, last,
                 callee, regionStart,
                 protoVars, stringVars, restVars>>

\* the evaluator forks on an abstract condition: realm.captureEffects()
CaptureEffects ==
  /\ pc = "body" /\ callee = "ordinary"
  /\ ~realm.capture
  /\ realm' = [NoCapture EXCEPT !.capture = TRUE]
  /\ regionStart' = Snapshot(properties, symbols, env)
  /\ UNCHANGED <<kind, generator, key, extensible, properties, symbols, pc, last,
                 callee, env,
                 protoVars, stringVars, restVars>>

\* the body has completed with c
EvaluateBody ==
  /\ pc = "body"
  /\ \E c \in Completions :
       LET r == OrdinaryCallEvaluateBody(CallState, callee, c)
       IN /\ properties' = r.T.properties
          /\ symbols' = r.T.symbols
          /\ env' = r.T.env
          /\ realm' = r.T.realm
          /\ last' = [op |-> "OrdinaryCallEvaluateBody", c |-> c,
                      e |-> get_captured_effects(CallState),
                      result |-> r.result, calls |-> r.T.calls,
                      body |-> Snapshot(properties, symbols, env)]
  /\ pc' = "returned"
  /\ UNCHANGED <<kind, generator, key, extensible, callee, regionStart,
                 protoVars, stringVars, restVars>>

NextCall ==
  \/ BodyDefine
  \/ BodyDelete
  \/ BodySet
  \/ BodyAssign
  \/ CaptureEffects
  \/ EvaluateBody

SpecCall == InitCall /\ [][NextCall]_vars


(***************************************************************************)
(* OrdinarySet along the prototype chain: O, whose [[Prototype]] is null   *)
(* or parent, and parent, whose [[Prototype]] is null.  The client builds  *)
(* O's property and calls O.$Set with O, parent or a primitive as Receiver.*)
(***************************************************************************)
AllReceivers == {"O", "parent", "primitive"}

\* what parent may hold for key from the start
ParentBindings ==
  {NoBinding}
    \cup {[value |-> v, writable |-> w, enumerable |-> TRUE, configurable |-> TRUE] :
            v \in {"v1", "adel"}, w \in BOOLEAN}
    \cup {[get |-> "undefined", set |-> f, enumerable |-> TRUE, configurable |-> TRUE] :
            f \in Funcs}

InitSet ==
  /\ kind = "ordinary"
  /\ generator = FALSE
  /\ key \in Keys
  /\ extensible = TRUE
  /\ properties = [k \in StringKeys |-> NoBinding]
  /\ symbols = [k \in SymbolKeys |-> NoBinding]
  /\ pc = "idle"
  /\ last = NoCall
  /\ NoCallState
  /\ prototype \in {"null", "parent"}
  /\ parentExtensible \in BOOLEAN
  /\ \E b \in ParentBindings :
       /\ parentProperties = [k \in StringKeys |-> IF k = key THEN b ELSE NoBinding]
       /\ parentSymbols = [k \in SymbolKeys |-> IF k = key THEN b ELSE NoBinding]
  /\ NoString
  /\ RestIdle

\* the client defines O's property; the result is not looked at
DefineQuietly ==
  /\ pc = "idle"
  /\ \E Desc \in Descs :
       LET r == OrdinaryDefineOwnProperty(Store, key, Desc)
       IN /\ r.result = "true"
          /\ properties' = r.S.properties
          /\ symbols' = r.S.symbols
  /\ UNCHANGED <<kind, generator, key, extensible, pc, last, callVars, protoVars, stringVars, restVars>>

\* O.$Set(key, V, Receiver)
SetThroughPrototype ==
  /\ pc = "idle"
  /\ \E V \in Values, Receiver \in AllReceivers :
       Finish("Set", key, EmptyRec, V, Receiver, OrdinarySet(Store, "O", key, V, Receiver))

NextSet ==
  \/ DefineQuietly
  \/ SetThroughPrototype
  \/ PreventExtensions
  \/ Continue

SpecSet == InitSet /\ [][NextSet]_vars


(***************************************************************************)
(* ArraySetLength: an array A, its "length" property and its elements in   *)
(* A.properties.  Numbers are written as the strings JavaScript prints.    *)
(***************************************************************************)
IndexKeys == {"0", "2", "4", "9", "10"}
ArrayKeys == {"length"} \cup IndexKeys

\* the number a numeric string stands for
Num ==
  [n \in {"-1", "0", "1", "2", "3", "4", "5", "6", "7", "8", "9", "10", "11", "12"} |->
     CASE n = "-1" -> 0 - 1 [] n = "0" -> 0 [] n = "1" -> 1 [] n = "2" -> 2
       [] n = "3" -> 3 [] n = "4" -> 4 [] n = "5" -> 5 [] n = "6" -> 6
       [] n = "7" -> 7 [] n = "8" -> 8 [] n = "9" -> 9 [] n = "10" -> 10
       [] n = "11" -> 11 [] n = "12" -> 12]

\* ToString(n) of a number, and the decimal digits it writes for n >= 0
NumberToString(n) == CHOOSE k \in DOMAIN Num : Num[k] = n
RECURSIVE Digits(_)
Digits(n) == IF n < 10 THEN <<n>> ELSE Append(Digits(n \div 10), n % 10)

\* parseInt(x, 10) of a key: NaN for a key that does not start with a digit
IsNaN(x) == x \notin DOMAIN Num
parseInt(x) == Num[x]

\* ToNumber, and ToUint32 of the numbers of the model: a number from 0 to
\* 12 is its own ToUint32, and ToUint32 of a negative n is 2^32 + n
ToNumber(v) == [number |-> Num[v]]
ToUint32(v) == IF Num[v] >= 0 THEN [number |-> Num[v]] ELSE [plus2to32 |-> Num[v]]

\* the order of the code units of two strings of digits
RECURSIVE StringLess(_, _)
StringLess(a, b) ==
  IF a = <<>> THEN b # <<>>
  ELSE IF b = <<>> THEN FALSE
  ELSE IF Head(a) # Head(b) THEN Head(a) < Head(b)
  ELSE StringLess(Tail(a), Tail(b))

\* SortDefault that compares the numbers
RECURSIVE SortNumeric(_)
SortNumeric(xs) ==
  IF xs = {} THEN <<>>
  ELSE LET least == CHOOSE x \in xs : \A y \in xs : x <= y
       IN <<least>> \o SortNumeric(xs \ {least})

\* Array.prototype.sort() without a comparison function: the elements in
\* the order of their string conversions
RECURSIVE SortDefault(_)
SortDefault(xs) ==
  IF xs = {} THEN <<>>
  ELSE LET least == CHOOSE x \in xs :
                      \A y \in xs : x = y \/ StringLess(Digits(x), Digits(y))
       IN <<least>> \o SortDefault(xs \ {least})

RECURSIVE Reverse(_)
Reverse(xs) == IF xs = <<>> THEN <<>> ELSE Append(Reverse(Tail(xs)), Head(xs))

\* the keys of A.properties, parsed, between newLen and oldLen, sorted and
\* reversed
KeysToDelete(S, newLen, oldLen) ==
  LET keys == {x \in DOMAIN S.properties : S.properties[x] # NoBinding}
      parsed == {parseInt(x) : x \in {k \in keys : ~IsNaN(k)}}
  IN Reverse(SortDefault({x \in parsed : newLen <= x /\ x <= oldLen}))

\* steps 16 to 18 of ArraySetLength
RECURSIVE DeleteElements(_, _, _, _)
DeleteElements(S, keys, newLenDesc, newWritable) ==
  IF keys = <<>>
  THEN IF ~newWritable
       THEN OrdinaryDefineOwnProperty(S, "length", [writable |-> FALSE])
       ELSE Ret("true", S)
  ELSE LET oldLen == Head(keys)
           d == OrdinaryDelete(S, NumberToString(oldLen))
           S1 == Log(d.S, [method |-> "$Delete", on |-> "A", P |-> NumberToString(oldLen),
                           result |-> d.result])
       IN IF d.result = "false"
          THEN LET lenDesc == IF ~newWritable
                              THEN [newLenDesc EXCEPT !.value = NumberToString(oldLen + 1),
                                                      !.writable = FALSE]
                              ELSE [newLenDesc EXCEPT !.value = NumberToString(oldLen + 1)]
               IN Ret("false", OrdinaryDefineOwnProperty(S1, "length", lenDesc).S)
          ELSE DeleteElements(S1, Tail(keys), newLenDesc, newWritable)

\* ArraySetLength that makes length non-writable before the deletions
ArraySetLengthAtOnce(S, Desc) ==
  IF ~Has(Desc, "value") THEN OrdinaryDefineOwnProperty(S, "length", Desc)
  ELSE LET oldLenDesc == OrdinaryGetOwnProperty(S, "length")
           oldLen == Num[oldLenDesc.value]
       IN IF ToUint32(Desc.value) # ToNumber(Desc.value) THEN Ret("RangeError", S)
          ELSE LET newLen == ToUint32(Desc.value).number
                   newLenDesc == [Desc EXCEPT !.value = NumberToString(newLen)]
               IN IF newLen >= oldLen
                  THEN OrdinaryDefineOwnProperty(S, "length", newLenDesc)
                  ELSE IF ~oldLenDesc.writable THEN Ret("false", S)
                  ELSE LET newWritable == ~Has(newLenDesc, "writable")
                                          \/ newLenDesc.writable
                           deferred == newLenDesc
                           succeeded == OrdinaryDefineOwnProperty(S, "length", deferred)
                       IN IF succeeded.result = "false" THEN Ret("false", succeeded.S)
                          ELSE DeleteElements(succeeded.S,
                                              KeysToDelete(succeeded.S, newLen, oldLen),
                                              deferred, newWritable)

\* ECMA262 9.4.2.4
ArraySetLength(S, Desc) ==
  IF ~Has(Desc, "value") THEN OrdinaryDefineOwnProperty(S, "length", Desc)
  ELSE LET oldLenDesc == OrdinaryGetOwnProperty(S, "length")
           oldLen == Num[oldLenDesc.value]
       IN IF ToUint32(Desc.value) # ToNumber(Desc.value) THEN Ret("RangeError", S)
          ELSE LET newLen == ToUint32(Desc.value).number
                   newLenDesc == [Desc EXCEPT !.value = NumberToString(newLen)]
               IN IF newLen >= oldLen
                  THEN OrdinaryDefineOwnProperty(S, "length", newLenDesc)
                  ELSE IF ~oldLenDesc.writable THEN Ret("false", S)
                  ELSE LET newWritable == ~Has(newLenDesc, "writable")
                                          \/ newLenDesc.writable
                           deferred == IF newWritable THEN newLenDesc
                                       ELSE [newLenDesc EXCEPT !.writable = TRUE]
                           succeeded == OrdinaryDefineOwnProperty(S, "length", deferred)
                       IN IF succeeded.result = "false" THEN Ret("false", succeeded.S)
                          ELSE DeleteElements(succeeded.S,
                                              KeysToDelete(succeeded.S, newLen, oldLen),
                                              deferred, newWritable)

\* an element of A
Element(c) ==
  [value |-> "v1", writable |-> TRUE, enumerable |-> TRUE, configurable |-> c]

\* the descriptors the client passes for "length"
LengthDescs ==
  {v @@ w : v \in {EmptyRec} \cup {[value |-> n] : n \in {"-1", "0", "1", "3", "5", "10", "11", "12"}},
            w \in WritablePart}

\* an array with some of the elements, each configurable or not, and a
\* length above all of them
InitArray ==
  /\ kind = "ordinary"
  /\ generator = FALSE
  /\ key = "length"
  /\ extensible = TRUE
  /\ \E elems \in [IndexKeys -> {NoBinding, Element(TRUE), Element(FALSE)}],
        len \in {"5", "11"}, w \in BOOLEAN :
       /\ \A k \in IndexKeys : elems[k] # NoBinding => Num[k] < Num[len]
       /\ properties = [k \in ArrayKeys |->
                          IF k = "length"
                          THEN [value |-> len, writable |-> w, enumerable |-> FALSE,
                                configurable |-> FALSE]
                          ELSE elems[k]]
  /\ symbols = [k \in SymbolKeys |-> NoBinding]
  /\ pc = "idle"
  /\ last = NoCall
  /\ NoCallState
  /\ NoParent
  /\ NoString
  /\ RestIdle

\* A.$DefineOwnProperty("length", Desc)
SetLength ==
  /\ pc = "idle"
  /\ \E Desc \in LengthDescs :
       Finish("ArraySetLength", "length", Desc, "undefined", "A",
              ArraySetLength(Store, Desc))

NextArray ==
  \/ SetLength
  \/ Continue

SpecArray == InitArray /\ [][NextArray]_vars


(***************************************************************************)
(* String exotic objects (values/StringExotic.js): O with a [[StringData]] *)
(* slot.  The client defines and deletes own properties of O, which enter  *)
(* O.properties and O.symbols in the order keyOrder keeps, and then calls  *)
(* O.$GetOwnProperty and O.$OwnPropertyKeys.                               *)
(***************************************************************************)
\* the longest [[StringData]] of the model, and the strings up to it
MaxStringLength == 2
Characters == <<"h", "i", "!">>
Strings == {SubSeq(Characters, 1, n) : n \in 0..MaxStringLength}

\* the string keys O.properties is indexed with, and those the client defines
DefinableKeys == {"0", "1", "2", "b"}
\* the keys of the characters of str
CharacterKeys(str) == {P \in DefinableKeys : P \in DOMAIN Num /\ Num[P] < Len(str)}
StringObjectKeys == DefinableKeys \cup {"-0", "-1", "1.5", "01"}

\* CanonicalNumericIndexString(P): the number n when ToString(n) is P, -0
\* for "-0", undefined otherwise
CanonicalNumericIndexString(P) ==
  CASE P = "-0" -> [negzero |-> TRUE]
    [] P = "1.5" -> [fraction |-> P]
    [] P \in DOMAIN Num -> [number |-> Num[P]]
    [] OTHER -> Undef

IsInteger(index) == Has(index, "number") \/ Has(index, "negzero")

\* ToUint32 of a string key: NaN becomes 0, a fraction is truncated
KeyToUint32(k) ==
  CASE k \in DOMAIN Num -> ToUint32(k)
    [] k = "-0" -> [number |-> 0]
    [] k = "1.5" -> [number |-> 1]
    [] k = "01" -> [number |-> 1]
    [] OTHER -> [number |-> 0]

UINT32_MAX == [plus2to32 |-> 0 - 1]

IsArrayIndex(P) ==
  IF P \in SymbolKeys THEN FALSE
  ELSE LET i == KeyToUint32(P)
       IN i # UINT32_MAX /\ Has(i, "number") /\ NumberToString(i.number) = P

\* the integer index the characters of the string are looked up with, or
\* undefined, with -0 taken for 0
IndexOfKeyNoNegativeZero(P) ==
  IF P \in SymbolKeys THEN Undef
  ELSE LET index == CanonicalNumericIndexString(P)
       IN IF index = Undef THEN Undef
          ELSE IF IsInteger(index) = FALSE THEN Undef
          ELSE IF Has(index, "negzero") THEN [number |-> 0]
          ELSE index

\* steps 3 to 8 of $GetOwnProperty: the integer index P stands for, or
\* undefined
IndexOfKey(P) ==
  IF P \in SymbolKeys THEN Undef
  ELSE LET index == CanonicalNumericIndexString(P)
       IN IF index = Undef THEN Undef
          ELSE IF IsInteger(index) = FALSE THEN Undef
          ELSE IF Has(index, "negzero") THEN Undef
          ELSE index

\* ThrowIfMightHaveBeenDeleted(value) throws
ThrowsIfMightHaveBeenDeleted(desc) == Has(desc, "value") /\ mightHaveBeenDeleted(desc.value)

\* O.$GetOwnProperty(P) of a String object whose [[StringData]] is str
StringGetOwnProperty(S, str, P) ==
  LET desc == OrdinaryGetOwnProperty(S, P)
  IN IF desc # Undef
     THEN IF ThrowsIfMightHaveBeenDeleted(desc) THEN [thrown |-> "IntrospectionError"]
          ELSE desc
     ELSE LET index == IndexOfKey(P)
              len == Len(str)
          IN IF index = Undef THEN Undef
             ELSE IF index.number < 0 \/ len <= index.number THEN Undef
             ELSE [value |-> str[index.number + 1], writable |-> FALSE,
                   enumerable |-> TRUE, configurable |-> FALSE]

\* this.getOwnPropertyKeysArray(): the keys of O.properties that hold a
\* descriptor, in insertion order
getOwnPropertyKeysArray(S, order) ==
  SelectSeq(order.properties,
            LAMBDA k : S.properties[k] # NoBinding /\ S.properties[k] # Undef)

RECURSIVE Range(_)
Range(xs) == IF xs = <<>> THEN {} ELSE {Head(xs)} \cup Range(Tail(xs))

RECURSIVE MapToString(_)
MapToString(xs) ==
  IF xs = <<>> THEN <<>> ELSE <<NumberToString(Head(xs))>> \o MapToString(Tail(xs))

\* this.symbols.keys(): the keys of the map O.symbols in insertion order
SymbolKeysOf(S, order) == order.symbols

\* O.$OwnPropertyKeys() of a String object whose [[StringData]] is str
StringOwnPropertyKeys(S, str, order) ==
  LET len == Len(str)
      indices == [i \in 1..len |-> NumberToString(i - 1)]
      ownKeys == getOwnPropertyKeysArray(S, order)
      own == {parseInt(x) : x \in {k \in Range(ownKeys) : IsArrayIndex(k)}}
      larger == SortNumeric({x \in own : x >= len})
      others == SelectSeq(ownKeys, LAMBDA x : ~IsArrayIndex(x))
  IN indices \o MapToString(larger) \o others \o SymbolKeysOf(S, order)

\* OrdinaryDefineOwnProperty with current read from the maps of O alone
StringDefineOwnPropertyOrdinaryCurrent(S, str, P, Desc) ==
  OrdinaryDefineOwnProperty(S, P, Desc)

\* O.$DefineOwnProperty(P, Desc) of a String object: OrdinaryDefineOwnProperty,
\* whose step 1 calls the $GetOwnProperty of the String object
StringDefineOwnProperty(S, str, P, Desc) ==
  LET current == StringGetOwnProperty(S, str, P)
  IN IF current = IntrospectionError THEN Ret("IntrospectionError", S)
     ELSE ValidateAndApplyPropertyDescriptor(S, "O", P, extensible, Desc, current)

\* O.$Delete(P) of a String object: OrdinaryDelete, whose step 2 calls the
\* $GetOwnProperty of the String object
StringDeleteProperty(S, str, P) ==
  LET desc == StringGetOwnProperty(S, str, P)
  IN IF desc = IntrospectionError THEN Ret("IntrospectionError", S)
     ELSE IF desc = Undef THEN Ret("true", S)
     ELSE IF desc.configurable
          THEN Ret("true", InternalUpdatedProperty(
                             SetBinding(recordModifiedProperty(S, P), P, Undef), P))
          ELSE Ret("false", S)

\* O.$Set(P, V, O) of a String object: OrdinarySet with O as Receiver, whose
\* steps 2 and 4.c call the $GetOwnProperty of the String object; the
\* prototype of O has no property P
StringSetProperty(S, str, P, V) ==
  LET own == StringGetOwnProperty(S, str, P)
      ownDescValue == IF own = Undef THEN "undefined"
                      ELSE IF ~Has(own, "value") THEN "undefined" ELSE own.value
      ownDesc == IF own = Undef
                 THEN [value |-> "undefined", writable |-> TRUE,
                       enumerable |-> TRUE, configurable |-> TRUE]
                 ELSE own
      weakDeletion == mightHaveBeenDeleted(V)
  IN IF own = IntrospectionError THEN Ret("IntrospectionError", S)
     ELSE IF ~IsDataDescriptor(ownDesc) THEN OrdinarySetAccessor(S, "O", V, "O", ownDesc)
     ELSE IF ~ownDesc.writable /\ ~weakDeletion
          THEN IF mightHaveBeenDeleted(ownDescValue)
               THEN Ret("IntrospectionError", S)
               ELSE Ret("false", S)
     ELSE IF own = Undef
          THEN StringDefineOwnProperty(S, str, P,
                 [value |-> V, writable |-> TRUE, enumerable |-> TRUE,
                  configurable |-> TRUE])
     ELSE LET refused == ReceiverRefuses(own, ownDescValue, weakDeletion)
          IN IF refused # "ok" THEN Ret(refused, S)
             ELSE LET valueDesc == IF weakDeletion THEN [own EXCEPT !.value = V]
                                   ELSE [value |-> V]
                      S1 == IF weakDeletion \/ mightHaveBeenDeleted(ownDescValue)
                            THEN StringDeleteProperty(S, str, P).S
                            ELSE S
                  IN StringDefineOwnProperty(S1, str, P, valueDesc)

\* the descriptors the client defines on P
StringPropertyDescs(P) ==
  {[value |-> v, writable |-> TRUE, enumerable |-> TRUE, configurable |-> TRUE] :
     v \in IF P = "b" THEN {"v1", "adel"} ELSE {"v1"}}

InitString ==
  /\ kind = "ordinary"
  /\ generator = FALSE
  /\ key = "x"
  /\ extensible = TRUE
  /\ properties = [k \in StringObjectKeys |-> NoBinding]
  /\ symbols = [k \in SymbolKeys |-> NoBinding]
  /\ pc = "idle"
  /\ last = NoCall
  /\ NoCallState
  /\ NoParent
  /\ StringData \in Strings
  /\ keyOrder = [properties |-> <<>>, symbols |-> <<>>]
  /\ RestIdle

\* the insertion order of the two maps after a call that changed store S
\* into store T on key P
Inserted(S, T, P) ==
  IF GetBinding(S, P) = NoBinding /\ GetBinding(T, P) # NoBinding
  THEN IF P \in SymbolKeys
       THEN [keyOrder EXCEPT !.symbols = Append(@, P)]
       ELSE [keyOrder EXCEPT !.properties = Append(@, P)]
  ELSE keyOrder

\* a call that changes O and whose result the client does not keep
StringUpdate(P, r) ==
  /\ r.result = "true"
  /\ properties' = r.S.properties
  /\ symbols' = r.S.symbols
  /\ keyOrder' = Inserted(Store, r.S, P)
  /\ UNCHANGED <<kind, generator, key, extensible, pc, last, callVars, protoVars, StringData,
                 restVars>>

\* O.$DefineOwnProperty(P, Desc)
StringDefine ==
  /\ pc = "idle"
  /\ \E P \in DefinableKeys \cup SymbolKeys :
       \E Desc \in StringPropertyDescs(P) :
         StringUpdate(P, StringDefineOwnProperty(Store, StringData, P, Desc))

\* O.$Delete(P)
StringDelete ==
  /\ pc = "idle"
  /\ \E P \in DefinableKeys \cup SymbolKeys :
       /\ OrdinaryGetOwnProperty(Store, P) # Undef
       /\ StringUpdate(P, StringDeleteProperty(Store, StringData, P))

\* the descriptors the client tries on the key of a character, next to those of
\* StringPropertyDescs: a character, another value, an abstract value, and
\* single attributes
TriedDescs ==
  {EmptyRec, [value |-> "h"], [value |-> "i"], [value |-> "v1"], [value |-> "adel"],
   [writable |-> TRUE], [writable |-> FALSE], [enumerable |-> FALSE],
   [configurable |-> TRUE], [get |-> "f1"],
   [value |-> "h", writable |-> FALSE, enumerable |-> TRUE, configurable |-> FALSE]}

\* a call on key P that returns r to the client
StringFinish(name, P, Desc, V, r) ==
  /\ properties' = r.S.properties
  /\ symbols' = r.S.symbols
  /\ keyOrder' = Inserted(Store, r.S, P)
  /\ last' = Returned(name, P, Desc, V, "O", r)
  /\ pc' = "returned"
  /\ UNCHANGED <<kind, generator, key, extensible, callVars, protoVars, StringData,
                 restVars>>

\* O.$DefineOwnProperty(P, Desc), with the result kept
StringTryDefine ==
  /\ pc = "idle"
  /\ \E P \in CharacterKeys(StringData), Desc \in TriedDescs :
       StringFinish("$DefineOwnProperty", P, Desc, "undefined",
                    StringDefineOwnProperty(Store, StringData, P, Desc))

\* O.$Delete(P), with the result kept
StringTryDelete ==
  /\ pc = "idle"
  /\ \E P \in CharacterKeys(StringData) :
       StringFinish("$Delete", P, EmptyRec, "undefined",
                    StringDeleteProperty(Store, StringData, P))

\* O.$Set(P, V, O), with the result kept
StringTrySet ==
  /\ pc = "idle"
  /\ \E P \in CharacterKeys(StringData), V \in {"h", "v1", "adel"} :
       StringFinish("$Set", P, EmptyRec, V,
                    StringSetProperty(Store, StringData, P, V))

\* O.$GetOwnProperty(P)
StringGet ==
  /\ pc = "idle"
  /\ \E P \in StringObjectKeys \cup SymbolKeys :
       Finish("$GetOwnProperty", P, EmptyRec, "undefined", "O",
              Ret(StringGetOwnProperty(Store, StringData, P), Store))

\* O.$OwnPropertyKeys()
StringKeysOf ==
  /\ pc = "idle"
  /\ Finish("$OwnPropertyKeys", "x", EmptyRec, "undefined", "O",
            Ret(StringOwnPropertyKeys(Store, StringData, keyOrder), Store))

NextString ==
  \/ StringDefine
  \/ StringDelete
  \/ StringTryDefine
  \/ StringTryDelete
  \/ StringTrySet
  \/ StringGet
  \/ StringKeysOf
  \/ Continue

SpecString == InitString /\ [][NextString]_vars

(***************************************************************************)
(* EnumerateObjectProperties(O): the iterator walks the own keys of O and  *)
(* then those of parent when O.$Prototype is parent.  The client may       *)
(* delete properties of O and of parent while the enumeration goes on.     *)
(* The iterator keeps the closure variables visited, obj, keys and index,  *)
(* and the model adds the trace of what the calls of next() met.           *)
(***************************************************************************)
\* the string keys of O and of parent in an enumeration
EnumKeys == {"x", "y"}

\* how many calls of next() the client makes on one iterator
MaxCalls == 4

\* o.$OwnPropertyKeys() of an ordinary object: the string keys that hold a
\* property in insertion order, then the symbol keys likewise
OwnPropertyKeysOf(S, o) ==
  LET T == On(o, S)
      order == IF o = "O" THEN keyOrder ELSE parentKeyOrder
  IN getOwnPropertyKeysArray(T, order)
       \o SelectSeq(order.symbols,
                    LAMBDA k : T.symbols[k] # NoBinding /\ T.symbols[k] # Undef)

\* key instanceof StringValue, with symbols taken for strings
IsStringValueOrSymbol(k) == k # "undefined"

\* key instanceof StringValue; keys[index] is undefined past the end of keys
IsStringValue(k) == k \in EnumKeys

\* visited.add(key.value) for a key met as a non-enumerable property, left out
HideNever(it, k) ==
  [it EXCEPT !.index = @ + 1,
             !.trace = Append(@, [event |-> "hidden", key |-> k, obj |-> it.obj])]

\* index += 1; visited.add(key.value) for a key met as a non-enumerable property
Hide(it, k) ==
  [it EXCEPT !.index = @ + 1, !.visited = @ \cup {k},
             !.trace = Append(@, [event |-> "hidden", key |-> k, obj |-> it.obj])]

CreateIterResultObject(value, done) == [value |-> value, done |-> done]

IterRet(r, it) == [result |-> r, it |-> it]

\* the native method next of the iterator: the loop runs on the value of
\* the closure variables
RECURSIVE next(_, _)
RECURSIVE nextLoop(_, _)
next(S, it) == CHOOSE r \in {nextLoop(S, v) : v \in {it}} : TRUE
nextLoop(S, it) ==
  LET proto == PrototypeOf(it.obj)
      atEnd == it.index >= Len(it.keys)
  IN IF atEnd /\ proto = "null"
     THEN IterRet(CreateIterResultObject("undefined", TRUE), it)
     ELSE LET it1 == IF atEnd
                     THEN [it EXCEPT !.obj = proto, !.keys = OwnPropertyKeysOf(S, proto),
                                     !.index = 0]
                     ELSE it
              k == IF it1.index < Len(it1.keys) THEN it1.keys[it1.index + 1]
                   ELSE "undefined"
          IN IF ~IsStringValue(k) THEN next(S, [it1 EXCEPT !.index = @ + 1])
             ELSE LET desc == GetOwnPropertyOf(S, it1.obj, k)
                  IN IF desc # Undef /\ ~desc.enumerable
                     THEN IF ThrowsIfMightHaveBeenDeleted(desc)
                          THEN IterRet([thrown |-> "IntrospectionError"], it1)
                          ELSE next(S, Hide(it1, k))
                     ELSE IF k \in it1.visited
                          THEN next(S, [it1 EXCEPT !.index = @ + 1])
                          ELSE IterRet(CreateIterResultObject(k, FALSE),
                                       [it1 EXCEPT !.visited = @ \cup {k},
                                                   !.trace = Append(@, [event |-> "yielded",
                                                                        key |-> k,
                                                                        obj |-> it1.obj])])

\* the iterator EnumerateObjectProperties(O) returns
EnumerateObjectProperties(S) ==
  [created |-> TRUE, visited |-> {}, obj |-> "O", keys |-> OwnPropertyKeysOf(S, "O"),
   index |-> 0, trace |-> <<>>, calls |-> 0, done |-> FALSE]

\* what a key of O or of parent holds when the enumeration starts
EnumProperty(e, v) ==
  [value |-> v, writable |-> TRUE, enumerable |-> e, configurable |-> TRUE]
EnumBindings ==
  {NoBinding, EnumProperty(TRUE, "v1"), EnumProperty(FALSE, "v1"), EnumProperty(FALSE, "adel")}

\* the orders in which the keys of map m that have a binding were inserted
RECURSIVE Orders(_)
Orders(ks) ==
  IF ks = {} THEN {<<>>}
  ELSE UNION {{<<k>> \o rest : rest \in Orders(ks \ {k})} : k \in ks}
InsertionOrders(m) == Orders({k \in DOMAIN m : m[k] # NoBinding})

InitEnum ==
  /\ kind = "ordinary"
  /\ generator = FALSE
  /\ key = "x"
  /\ extensible = TRUE
  /\ properties \in [EnumKeys -> EnumBindings]
  /\ symbols \in [SymbolKeys -> {NoBinding, EnumProperty(TRUE, "v1")}]
  /\ pc = "idle"
  /\ last = NoCall
  /\ NoCallState
  /\ prototype \in {"null", "parent"}
  /\ parentExtensible = TRUE
  /\ parentProperties \in [EnumKeys -> EnumBindings]
  /\ parentSymbols = [k \in SymbolKeys |-> NoBinding]
  /\ prototype = "null" => parentProperties = [k \in EnumKeys |-> NoBinding]
  /\ StringData = <<>>
  /\ \E ps \in InsertionOrders(properties), ss \in InsertionOrders(symbols) :
       keyOrder = [properties |-> ps, symbols |-> ss]
  /\ \E ps \in InsertionOrders(parentProperties), ss \in InsertionOrders(parentSymbols) :
       parentKeyOrder = [properties |-> ps, symbols |-> ss]
  /\ iterator = NoIterator
  /\ NoContexts
  /\ NotPartial

\* EnumerateObjectProperties(O)
Enumerate ==
  /\ iterator = NoIterator
  /\ iterator' = EnumerateObjectProperties(Store)
  /\ UNCHANGED <<kind, generator, key, extensible, properties, symbols, pc, last, callVars,
                 protoVars, stringVars, parentKeyOrder, contextStack, environments, flagVars, loop, heap>>

\* iterator.next()
IteratorNext ==
  /\ iterator # NoIterator
  /\ iterator.calls < MaxCalls
  /\ LET r == next(Store, iterator)
     IN /\ iterator' = [r.it EXCEPT !.calls = @ + 1,
                                    !.done = Has(r.result, "done") /\ r.result.done]
        /\ last' = [op |-> "next", result |-> r.result]
  /\ UNCHANGED <<kind, generator, key, extensible, properties, symbols, pc, callVars,
                 protoVars, stringVars, parentKeyOrder, contextStack, environments, flagVars, loop, heap>>

\* o.$Delete(P) while the enumeration goes on
EnumDelete ==
  /\ iterator # NoIterator
  /\ \E o \in {"O", "parent"}, P \in EnumKeys :
       /\ GetOwnPropertyOf(Store, o, P) # Undef
       /\ LET r == DeleteOf(Store, o, P)
          IN /\ r.result = "true"
             /\ properties' = r.S.properties
             /\ parentProperties' = r.S.parentProperties
  /\ UNCHANGED <<kind, generator, key, extensible, symbols, pc, last, callVars, prototype,
                 parentSymbols, parentExtensible, stringVars, restVars>>

NextEnum ==
  \/ Enumerate
  \/ IteratorNext
  \/ EnumDelete

SpecEnum == InitEnum /\ [][NextEnum]_vars

\* the client goes on calling next()
SpecEnumFair == SpecEnum /\ WF_vars(Enumerate) /\ WF_vars(IteratorNext)

(***************************************************************************)
(* Calls and the execution context stack (methods/call.js).  The realm     *)
(* keeps the stack of contexts, whose first element is the context of the  *)
(* global code; every function environment that was created is kept in     *)
(* environments, and a context names its environments by their position    *)
(* there.  The running code evaluates call expressions, invokes methods    *)
(* and returns.                                                            *)
(***************************************************************************)
\* how many function contexts are created in one run
MaxContexts == 3

\* function objects, by their [[ThisMode]] slot and by whether they are
\* NativeFunctionValues
Functions ==
  [thisMode : {"lexical", "strict", "global"}, native : {FALSE}]
    \cup {[thisMode |-> "global", native |-> TRUE]}

\* the values that are called: functions, a primitive, an object with no
\* [[Call]] method, an abstract value whose type is FunctionValue, and an
\* abstract value that might be any object
Primitive == [concrete |-> "primitive"]
PlainObject == [concrete |-> "object"]
AbstractFunction == [abstract |-> "FunctionValue"]
AbstractObject == [abstract |-> "ObjectValue"]
Callees == Functions \cup {Primitive, PlainObject, AbstractFunction, AbstractObject}

IsFunctionValue(F) == Has(F, "thisMode")
IsAbstractValue(F) == Has(F, "abstract")
IsObjectValue(F) == IsFunctionValue(F) \/ F = PlainObject

\* the this arguments of a call: undefined, null, a primitive and an object
ThisArguments == {"undefined", "null", "v1", "O"}

\* the argument lists of a call, and no argument list at all
NoArguments == [omitted |-> TRUE]
ArgumentLists == {NoArguments, [list |-> <<>>], [list |-> <<"v1">>]}

GlobalThisValue == "globalThis"

\* the context of the global code
GlobalContext ==
  [id |-> 0, function |-> [none |-> TRUE], caller |-> 0 - 1, lexicalEnvironment |-> 0,
   variableEnvironment |-> 0, suspended |-> FALSE, tail |-> FALSE, callerDepth |-> 0]

\* the realm as the calls see it: the context stack, the environments and
\* the [[Call]] hooks invoked so far
Contexts(stack, envs) == [contextStack |-> stack, environments |-> envs, hooks |-> <<>>]

CtxRet(r, C) == [result |-> r, C |-> C]

getRunningContext(C) == C.contextStack[Len(C.contextStack)]

\* context.suspend() on the running context
suspend(C) == [C EXCEPT !.contextStack[Len(C.contextStack)].suspended = TRUE]

\* realm.popContext(context)
popContext(C) == [C EXCEPT !.contextStack = SubSeq(@, 1, Len(@) - 1)]

\* NewFunctionEnvironment(F, newTarget): a function environment whose this
\* binding is not initialized
NewFunctionEnvironment(F, newTarget) ==
  [function |-> F, newTarget |-> newTarget, thisBindingStatus |-> "uninitialized",
   thisValue |-> "none"]

\* PrepareForOrdinaryCall that pushes the callee without suspending the caller
PrepareForOrdinaryCallNoSuspend(C, F, newTarget, tail, depth) ==
  LET callerContext == getRunningContext(C)
      localEnv == Len(C.environments) + 1
      calleeContext == [id |-> localEnv, function |-> F, caller |-> callerContext.id,
                        lexicalEnvironment |-> localEnv, variableEnvironment |-> localEnv,
                        suspended |-> FALSE, tail |-> tail, callerDepth |-> depth]
      D == [C EXCEPT !.environments = Append(@, NewFunctionEnvironment(F, newTarget))]
  IN CtxRet(calleeContext, [D EXCEPT !.contextStack = Append(@, calleeContext)])

\* PrepareForOrdinaryCall(F, newTarget); tail and callerDepth note for the
\* new context whether the call was in tail position and how deep the stack
\* was while the code that made the call ran
PrepareForOrdinaryCall(C, F, newTarget, tail, depth) ==
  LET callerContext == getRunningContext(C)
      localEnv == Len(C.environments) + 1
      calleeContext == [id |-> localEnv, function |-> F, caller |-> callerContext.id,
                        lexicalEnvironment |-> localEnv, variableEnvironment |-> localEnv,
                        suspended |-> FALSE, tail |-> tail, callerDepth |-> depth]
      D == suspend([C EXCEPT !.environments =
                               Append(@, NewFunctionEnvironment(F, newTarget))])
  IN CtxRet(calleeContext, [D EXCEPT !.contextStack = Append(@, calleeContext)])

\* ToObjectPartial(thisArgument) of a value that is neither null nor undefined
ToObjectPartial(v) == IF v = "O" THEN "O" ELSE "Object(v1)"

\* envRec.BindThisValue(V)
BindThisValue(C, envRec, V) ==
  [C EXCEPT !.environments[envRec].thisBindingStatus = "initialized",
            !.environments[envRec].thisValue = V]

\* the this value of a function that is not lexical, with the global this
\* value for every this argument of a non-strict function
ThisValueOfNeverBoxed(F, thisArgument) ==
  IF F.thisMode = "strict" \/ F.native THEN thisArgument
  ELSE GlobalThisValue

\* steps 5 and 6 of OrdinaryCallBindThis: the this value of a function that
\* is not lexical
ThisValueOf(F, thisArgument) ==
  IF F.thisMode = "strict" \/ F.native THEN thisArgument
  ELSE IF thisArgument \in {"null", "undefined"} THEN GlobalThisValue
  ELSE ToObjectPartial(thisArgument)

OrdinaryCallBindThis(C, F, calleeContext, thisArgument) ==
  IF F.thisMode = "lexical" THEN CtxRet("undefined", C)
  ELSE LET localEnv == calleeContext.lexicalEnvironment
           thisValue == ThisValueOf(F, thisArgument)
       IN CtxRet(thisValue, BindThisValue(C, localEnv, thisValue))

\* F.$Call(V, argsList) of a function: the context is prepared and this is
\* bound; the body then runs in the new context
InternalCall(C, F, V, argsList, tail, depth) ==
  LET D == [C EXCEPT !.hooks = Append(@, [F |-> F, V |-> V, argsList |-> argsList])]
      p == PrepareForOrdinaryCall(D, F, [absent |-> TRUE], tail, depth)
  IN CtxRet("running", OrdinaryCallBindThis(p.C, F, p.result, V).C)

\* IsCallable(func): "true", "false", or the IntrospectionError of
\* throwIfNotConcreteObject
IsCallable(func) ==
  IF func = Primitive THEN "false"
  ELSE IF IsFunctionValue(func) \/ func = AbstractFunction THEN "true"
  ELSE IF IsAbstractValue(func) THEN "IntrospectionError"
  ELSE "false"

\* Call(F, V, argsList) of call.js, for any value F
CallValue(C, F, V, argsList, tail, depth) ==
  LET args == IF argsList = NoArguments THEN <<>> ELSE argsList.list
      callable == IsCallable(F)
  IN IF callable = "IntrospectionError" THEN CtxRet("IntrospectionError", C)
     ELSE IF callable = "false" THEN CtxRet("TypeError", C)
     ELSE IF ~IsObjectValue(F) THEN CtxRet("invariant violation", C)
     ELSE InternalCall(C, F, V, args, tail, depth)

\* ECMA262 14.6.1: not implemented, never in tail position
IsInTailPosition(node) == FALSE

PrepareForTailCall(C) == popContext(suspend(C))

\* EvaluateDirectCall(ref, func, thisValue, args, tailPosition); node is
\* whether the call expression is in tail position in the source
EvaluateDirectCall(C, func, thisValue, args, tailPosition, node) ==
  LET depth == Len(C.contextStack)
  IN IF func = AbstractFunction THEN CtxRet("abstract value", C)
     ELSE IF IsAbstractValue(func) THEN CtxRet("IntrospectionError", C)
     ELSE IF ~IsObjectValue(func) THEN CtxRet("TypeError", C)
     ELSE IF IsCallable(func) # "true" THEN CtxRet("TypeError", C)
     ELSE CallValue(IF tailPosition = [passed |-> TRUE] THEN PrepareForTailCall(C) ELSE C,
                    func, thisValue, [list |-> args], node, depth)

\* EvaluateCall(ref, args): the tailPosition argument is not passed
EvaluateCall(C, func, thisValue, args, node) ==
  EvaluateDirectCall(C, func, thisValue, args, [absent |-> TRUE], node)

\* Invoke(V, P, argumentsList), func being GetV(V, P)
Invoke(C, V, func, argumentsList) ==
  LET args == IF argumentsList = NoArguments THEN [list |-> <<>>] ELSE argumentsList
  IN CallValue(C, func, V, args, FALSE, Len(C.contextStack))

InitContexts ==
  /\ kind = "ordinary"
  /\ generator = FALSE
  /\ key = "x"
  /\ extensible = TRUE
  /\ properties = [k \in StringKeys |-> NoBinding]
  /\ symbols = [k \in SymbolKeys |-> NoBinding]
  /\ pc = "idle"
  /\ last = NoCall
  /\ NoCallState
  /\ NoParent
  /\ NoString
  /\ NoEnumeration
  /\ contextStack = <<GlobalContext>>
  /\ environments = <<>>
  /\ NotPartial

\* what a call leaves behind
Called(name, F, V, argsList, node, r) ==
  /\ contextStack' = r.C.contextStack
  /\ environments' = r.C.environments
  /\ last' = [op |-> name, F |-> F, V |-> V, argsList |-> argsList, node |-> node,
              result |-> r.result, hooks |-> r.C.hooks, contextStack |-> contextStack,
              environments |-> environments]
  /\ UNCHANGED <<kind, generator, key, extensible, properties, symbols, pc, callVars,
                 protoVars, stringVars, enumVars, flagVars, loop, heap>>

CanCall == Len(environments) < MaxContexts

\* the this arguments of the calls the running code makes: any for a call
\* of a function from the global code, undefined for the other calls
ThisArgumentsOf(func) ==
  IF IsFunctionValue(func) /\ Len(contextStack) = 1 THEN ThisArguments ELSE {"undefined"}

\* whether the call expression is in tail position: only a call of a
\* function from a function can be
TailPositionsOf(func) ==
  IF IsFunctionValue(func) /\ Len(contextStack) > 1 THEN BOOLEAN ELSE {FALSE}

\* the running code evaluates a call expression through EvaluateCall
CallExpression ==
  /\ CanCall
  /\ \E func \in Callees :
     \E thisValue \in ThisArgumentsOf(func), node \in TailPositionsOf(func) :
       Called("EvaluateCall", func, thisValue, [list |-> <<>>], node,
              EvaluateCall(Contexts(contextStack, environments), func, thisValue, <<>>,
                           node))

\* the running code evaluates a call expression: EvaluateDirectCall with
\* tailPosition = IsInTailPosition(node)
DirectCallExpression ==
  /\ CanCall
  /\ \E func \in Callees :
     \E thisValue \in ThisArgumentsOf(func), node \in TailPositionsOf(func) :
       Called("EvaluateDirectCall", func, thisValue, [list |-> <<>>], node,
              EvaluateDirectCall(Contexts(contextStack, environments), func, thisValue,
                                 <<>>, [passed |-> IsInTailPosition(node)], node))

\* the running code invokes a method: Invoke, and through it Call
InvokeMethod ==
  /\ CanCall
  /\ \E func \in Callees :
     \E V \in ThisArgumentsOf(func), argsList \in ArgumentLists :
       Called("Call", func, V, argsList, FALSE,
              Invoke(Contexts(contextStack, environments), V, func, argsList))

\* a function environment nothing refers to any more
Collected == [collected |-> TRUE]

\* the running function returns: its context is popped, the context below
\* is resumed, and the function environment is left to the collector
ReturnFromCall ==
  /\ Len(contextStack) > 1
  /\ contextStack' = [SubSeq(contextStack, 1, Len(contextStack) - 1)
                        EXCEPT ![Len(contextStack) - 1].suspended = FALSE]
  /\ environments' =
       [environments EXCEPT ![contextStack[Len(contextStack)].lexicalEnvironment] = Collected]
  /\ last' = [op |-> "return"]
  /\ UNCHANGED <<kind, generator, key, extensible, properties, symbols, pc, callVars,
                 protoVars, stringVars, enumVars, flagVars, loop, heap>>

NextContexts ==
  \/ CallExpression
  \/ DirectCallExpression
  \/ InvokeMethod
  \/ ReturnFromCall

SpecContexts == InitContexts /\ [][NextContexts]_vars

(***************************************************************************)
(* The operations that turn a refusal into a TypeError:                    *)
(* DeletePropertyOrThrow, DefinePropertyOrThrow and Set, on O with its     *)
(* prototype chain.                                                        *)
(***************************************************************************)
\* DeletePropertyOrThrow(O, P)
DeletePropertyOrThrow(S, P) ==
  LET success == OrdinaryDelete(S, P)
  IN IF success.result = "false" THEN Ret("TypeError", success.S) ELSE success

\* Set that returns what O.$Set returned whatever Throw is
SetNeverThrows(S, P, V, Throw) == OrdinarySet(S, "O", P, V, "O")

\* Set(O, P, V, Throw)
Set(S, P, V, Throw) ==
  LET success == OrdinarySet(S, "O", P, V, "O")
  IN IF success.result = "false" /\ Throw = TRUE THEN Ret("TypeError", success.S)
     ELSE success

\* DefinePropertyOrThrow(O, P, desc)
DefinePropertyOrThrow(S, P, desc) ==
  LET success == OrdinaryDefineOwnProperty(S, P, desc)
  IN IF success.result = "false" THEN Ret("TypeError", success.S) ELSE success

\* the descriptors DefinePropertyOrThrow is called with
OrThrowDescs ==
  {[value |-> "v1"], [writable |-> TRUE], [configurable |-> TRUE], [enumerable |-> TRUE],
   [get |-> "f1"], [value |-> "adel", writable |-> FALSE, configurable |-> FALSE]}

DeleteOrThrow ==
  /\ pc = "idle"
  /\ Finish("DeletePropertyOrThrow", key, EmptyRec, "undefined", "O",
            DeletePropertyOrThrow(Store, key))

DefineOrThrow ==
  /\ pc = "idle"
  /\ \E Desc \in OrThrowDescs :
       Finish("DefinePropertyOrThrow", key, Desc, "undefined", "O",
              DefinePropertyOrThrow(Store, key, Desc))

\* Set(O, key, V, Throw); the record of the call keeps Throw in the place
\* of the descriptor
SetOrThrow ==
  /\ pc = "idle"
  /\ \E V \in Values, Throw \in BOOLEAN :
       Finish("Set(Throw)", key, [Throw |-> Throw], V, "O", Set(Store, key, V, Throw))

NextOrThrow ==
  \/ DefineQuietly
  \/ DeleteOrThrow
  \/ DefineOrThrow
  \/ SetOrThrow
  \/ PreventExtensions
  \/ Continue

SpecOrThrow == InitSet /\ [][NextOrThrow]_vars

(***************************************************************************)
(* Partial objects.  O may be partial, and a partial object may be simple; *)
(* its map may hold bindings from the start, since the properties of a     *)
(* partial object are not all defined through the protocol.  The values    *)
(* stored and written are concrete.                                        *)
(***************************************************************************)
\* what the binding of key holds at the start
PartialBindings ==
  {NoBinding, Undef,
   [value |-> "v1", writable |-> TRUE, enumerable |-> TRUE, configurable |-> TRUE],
   [value |-> "v1", writable |-> FALSE, enumerable |-> FALSE, configurable |-> FALSE],
   [get |-> "f1", set |-> "f1", enumerable |-> TRUE, configurable |-> TRUE]}

\* the descriptors O.$DefineOwnProperty is called with
PartialDescs ==
  {[value |-> "v1"], [value |-> "undefined", writable |-> TRUE],
   [configurable |-> FALSE], [get |-> "f1"]}

InitPartial ==
  /\ kind = "ordinary"
  /\ generator = FALSE
  /\ key \in Keys
  /\ extensible \in BOOLEAN
  /\ \E b \in PartialBindings :
       /\ properties = [k \in StringKeys |-> IF k = key THEN b ELSE NoBinding]
       /\ symbols = [k \in SymbolKeys |-> IF k = key THEN b ELSE NoBinding]
  /\ pc = "idle"
  /\ last = NoCall
  /\ NoCallState
  /\ prototype \in {"null", "parent"}
  /\ parentExtensible = TRUE
  /\ \E b \in {NoBinding, OtherProperty} :
       /\ parentProperties = [k \in StringKeys |-> IF k = key THEN b ELSE NoBinding]
       /\ parentSymbols = [k \in SymbolKeys |-> IF k = key THEN b ELSE NoBinding]
  /\ NoString
  /\ NoEnumeration
  /\ NoContexts
  /\ partial \in BOOLEAN
  /\ simple \in BOOLEAN
  /\ loop = NoLoop
  /\ heap = NoChains

PartialDefineOwnProperty ==
  /\ pc = "idle"
  /\ \E Desc \in PartialDescs :
       Finish("DefineOwnProperty", key, Desc, "undefined", "O",
              OrdinaryDefineOwnProperty(Store, key, Desc))

PartialSet ==
  /\ pc = "idle"
  /\ \E V \in {"undefined", "v1"} :
       Finish("Set", key, EmptyRec, V, "O", OrdinarySet(Store, "O", key, V, "O"))

NextPartial ==
  \/ GetOwnProperty
  \/ PartialDefineOwnProperty
  \/ Delete
  \/ PartialSet
  \/ Continue

SpecPartial == InitPartial /\ [][NextPartial]_vars

(***************************************************************************)
(* The maps of O over sequences of defines, sets and deletes, with the     *)
(* order in which the keys were inserted into them.                        *)
(***************************************************************************)
BindingKeys == {"x", "y"}

\* the descriptors O.$DefineOwnProperty is called with
BindingDescs ==
  {[value |-> "v1"],
   [value |-> "v1", writable |-> TRUE, enumerable |-> TRUE, configurable |-> TRUE],
   [value |-> "adel", writable |-> TRUE, enumerable |-> TRUE, configurable |-> TRUE],
   [get |-> "f1", configurable |-> TRUE]}

InitBindings ==
  /\ kind = "ordinary"
  /\ generator = FALSE
  /\ key = "x"
  /\ extensible = TRUE
  /\ properties = [k \in BindingKeys |-> NoBinding]
  /\ symbols = [k \in SymbolKeys |-> NoBinding]
  /\ pc = "idle"
  /\ last = NoCall
  /\ NoCallState
  /\ NoParent
  /\ NoString
  /\ RestIdle

\* what a call on key P leaves behind, in the maps and in their order
Ordered(name, P, Desc, V, r) ==
  /\ properties' = r.S.properties
  /\ symbols' = r.S.symbols
  /\ keyOrder' = Inserted(Store, r.S, P)
  /\ last' = Returned(name, P, Desc, V, "O", r)
  /\ pc' = "returned"
  /\ UNCHANGED <<kind, generator, key, extensible, callVars, protoVars, StringData,
                 restVars>>

BindingDefine ==
  /\ pc = "idle"
  /\ \E P \in BindingKeys \cup SymbolKeys, Desc \in BindingDescs :
       Ordered("DefineOwnProperty", P, Desc, "undefined",
               OrdinaryDefineOwnProperty(Store, P, Desc))

BindingSet ==
  /\ pc = "idle"
  /\ \E P \in BindingKeys \cup SymbolKeys, V \in {"v1", "undefined"} :
       Ordered("Set", P, EmptyRec, V, OrdinarySet(Store, "O", P, V, "O"))

BindingDelete ==
  /\ pc = "idle"
  /\ \E P \in BindingKeys \cup SymbolKeys :
       Ordered("Delete", P, EmptyRec, "undefined", OrdinaryDelete(Store, P))

NextBindings ==
  \/ BindingDefine
  \/ BindingSet
  \/ BindingDelete
  \/ Continue

SpecBindings == InitBindings /\ [][NextBindings]_vars

(***************************************************************************)
(* ObjectDefineProperties(O, Properties).  Properties is given by its own  *)
(* keys in the order of props.$OwnPropertyKeys(), each with what           *)
(* props.$GetOwnProperty returns for it and the value Get reads from it.   *)
(***************************************************************************)

\* the values a property of Properties holds: objects with the fields of a
\* descriptor, a primitive value, and an abstract value that might have
\* been deleted
DescriptorObjects ==
  {[object |-> [value |-> "v1", writable |-> TRUE, enumerable |-> TRUE,
                configurable |-> TRUE]],
   [object |-> [value |-> "v1"]],
   [object |-> [get |-> "f1", value |-> "v1"]],
   [primitive |-> "v1"],
   [abstract |-> "adel"]}

\* the entries Properties holds under key k: a key of the list without a
\* property, or a data property, enumerable or not
Entries(k) ==
  {[key |-> k, present |-> FALSE]}
    \cup {[key |-> k, present |-> TRUE, enumerable |-> e, value |-> v] :
            e \in BOOLEAN, v \in DescriptorObjects}

\* the objects Properties may be, and undefined
PropertiesValues ==
  {[primitive |-> "undefined"], [keys |-> <<>>]}
    \cup {[keys |-> <<e>>] : e \in Entries("x") \cup Entries("y")}
    \cup {[keys |-> <<e, f>>] : e \in Entries("x"), f \in Entries("y")}
    \cup {[keys |-> <<f, e>>] : e \in Entries("x"), f \in Entries("y")}

Thrown(what) == [thrown |-> what]

\* ToPropertyDescriptor(Obj): a TypeError when Obj is not an object or has
\* both accessor and data fields, else the descriptor with the fields of Obj
ToPropertyDescriptor(Obj) ==
  IF ~Has(Obj, "object") THEN Thrown("TypeError")
  ELSE LET f == Obj.object
       IN IF (Has(f, "get") \/ Has(f, "set")) /\ (Has(f, "value") \/ Has(f, "writable"))
          THEN Thrown("TypeError")
          ELSE [desc |-> [n \in DOMAIN f |-> f[n]]]

\* step 5: the pairs of nextKey and desc, or what reading or converting threw
RECURSIVE ReadDescriptors(_, _)
ReadDescriptors(keys, descriptors) ==
  IF keys = <<>> THEN [descriptors |-> descriptors]
  ELSE LET propDesc == Head(keys)
       IN IF propDesc.present /\ propDesc.enumerable
          THEN IF Has(propDesc.value, "abstract")
               THEN Thrown("IntrospectionError")
               ELSE LET desc == ToPropertyDescriptor(propDesc.value)
                    IN IF Has(desc, "thrown") THEN desc
                       ELSE ReadDescriptors(Tail(keys),
                              Append(descriptors, <<propDesc.key, desc.desc>>))
          ELSE ReadDescriptors(Tail(keys), descriptors)

DefinedRet(result, S, defined) == [result |-> result, S |-> S, defined |-> defined]

\* step 6: DefinePropertyOrThrow for each pair in list order; defined lists
\* the keys it was called with
RECURSIVE ApplyDescriptors(_, _, _)
ApplyDescriptors(S, descriptors, defined) ==
  IF descriptors = <<>> THEN DefinedRet("O", S, defined)
  ELSE LET P == Head(descriptors)[1]
           desc == Head(descriptors)[2]
           r == DefinePropertyOrThrow(S, P, desc)
       IN IF r.result # "true" THEN DefinedRet(r.result, r.S, Append(defined, P))
          ELSE ApplyDescriptors(r.S, Tail(descriptors), Append(defined, P))

\* ObjectDefineProperties that defines each property as soon as it is read
RECURSIVE DefineAsRead(_, _, _)
DefineAsRead(S, keys, defined) ==
  IF keys = <<>> THEN DefinedRet("O", S, defined)
  ELSE LET one == ReadDescriptors(<<Head(keys)>>, <<>>)
       IN IF Has(one, "thrown") THEN DefinedRet(one.thrown, S, defined)
          ELSE LET r == ApplyDescriptors(S, one.descriptors, defined)
               IN IF r.result # "O" THEN r
                  ELSE DefineAsRead(r.S, Tail(keys), r.defined)

ObjectDefinePropertiesOnePhase(S, O, Properties) ==
  IF O # "O" THEN DefinedRet("TypeError", S, <<>>)
  ELSE IF Has(Properties, "primitive") THEN DefinedRet("TypeError", S, <<>>)
  ELSE DefineAsRead(S, Properties.keys, <<>>)

\* ECMA262 19.1.2.3.1
ObjectDefineProperties(S, O, Properties) ==
  IF O # "O" THEN DefinedRet("TypeError", S, <<>>)
  ELSE IF Has(Properties, "primitive") THEN DefinedRet("TypeError", S, <<>>)
  ELSE LET read == ReadDescriptors(Properties.keys, <<>>)
       IN IF Has(read, "thrown") THEN DefinedRet(read.thrown, S, <<>>)
          ELSE ApplyDescriptors(S, read.descriptors, <<>>)

\* the client calls ObjectDefineProperties(O, Properties)
DefineProperties ==
  /\ pc = "idle"
  /\ \E O \in Receivers, Properties \in PropertiesValues :
       LET r == ObjectDefineProperties(Store, O, Properties)
           inserted == SelectSeq(r.defined,
                                 LAMBDA k : properties[k] = NoBinding
                                            /\ r.S.properties[k] # NoBinding)
       IN /\ properties' = r.S.properties
          /\ keyOrder' = [keyOrder EXCEPT !.properties = @ \o inserted]
          /\ last' = [op |-> "ObjectDefineProperties", O |-> O,
                      Properties |-> Properties, result |-> r.result,
                      defined |-> r.defined, properties |-> properties]
  /\ pc' = "returned"
  /\ UNCHANGED <<kind, generator, key, extensible, symbols, callVars, protoVars,
                 StringData, restVars>>

NextDefineProperties ==
  \/ DefineProperties
  \/ BindingDelete
  \/ Continue

SpecDefineProperties == InitBindings /\ [][NextDefineProperties]_vars

(***************************************************************************)
(* The head of a for-in or for-of statement (ForInOfHeadEvaluation), over  *)
(* the object O and its enumeration: the head evaluates its expression and *)
(* returns the iterator that the body of the loop then steps.              *)
(***************************************************************************)
\* what the expression of the head evaluates to: null, undefined, the
\* object O, or an abstract value; or its evaluation throws
ExprValues == {"null", "undefined", "O", "abstract", "throws"}

IterationKinds == {"enumerate", "iterate"}

\* no target label
NoTarget == Undef

BreakCompletion(value, target) == [type |-> "break", value |-> value, target |-> target]
ThrowCompletion(value) == [type |-> "throw", value |-> value, target |-> NoTarget]
NormalCompletion(value) == [type |-> "normal", value |-> value, target |-> NoTarget]

\* HasSomeCompatibleType(exprValue, NullValue, UndefinedValue)
IsNullOrUndefined(exprValue) == exprValue \in {"null", "undefined"}

\* what the head leaves: its completion, the iterator of O it created, the
\* functions it called with their arguments, and the LexicalEnvironment of
\* the running execution context
HeadRet(completion, it, calls, lexEnv) ==
  [completion |-> completion, iterator |-> it, calls |-> calls,
   lexicalEnvironment |-> lexEnv]

\* steps 1 and 2: the environment the expression is evaluated in
EvaluationEnvironment(TDZnames) == IF TDZnames # <<>> THEN "TDZ" ELSE "oldEnv"

\* GetIterator(obj): a TypeError for null and undefined, the
\* IntrospectionError for an abstract value, else the iterator of obj
GetIterator(obj) ==
  IF IsNullOrUndefined(obj) THEN ThrowCompletion("TypeError")
  ELSE IF obj = "abstract" THEN ThrowCompletion("IntrospectionError")
  ELSE NormalCompletion("iterator")

\* ForInOfHeadEvaluation that enumerates whatever the expression value is
ForInOfHeadEvaluationNoBreak(S, TDZnames, exprValue, iterationKind) ==
  LET restored == "oldEnv"
  IN IF exprValue = "throws"
     THEN HeadRet(ThrowCompletion("e"), NoIterator, <<>>, restored)
     ELSE IF iterationKind = "enumerate"
     THEN IF exprValue = "abstract"
          THEN HeadRet(ThrowCompletion("IntrospectionError"), NoIterator, <<>>, restored)
          ELSE IF IsNullOrUndefined(exprValue)
          THEN HeadRet(ThrowCompletion("TypeError"), NoIterator,
                       <<[function |-> "ToObject", argument |-> exprValue]>>, restored)
          ELSE HeadRet(NormalCompletion("iterator"), EnumerateObjectProperties(S),
                       <<[function |-> "ToObject", argument |-> exprValue],
                         [function |-> "EnumerateObjectProperties", argument |-> "O"]>>,
                       restored)
     ELSE HeadRet(GetIterator(exprValue), NoIterator,
                  <<[function |-> "GetIterator", argument |-> exprValue]>>, restored)

\* ECMA262 13.7.5.12, from step 5 on exprValue, the value of the expression
\* evaluated in TDZ (steps 2 and 3) after oldEnv was restored (step 4)
ForInOfHeadEvaluation(S, TDZnames, exprValue, iterationKind) ==
  LET restored == "oldEnv"
  IN IF exprValue = "throws"
     THEN HeadRet(ThrowCompletion("e"), NoIterator, <<>>, restored)
     ELSE IF iterationKind = "enumerate"
     THEN IF IsNullOrUndefined(exprValue)
          THEN HeadRet(BreakCompletion("empty", NoTarget), NoIterator, <<>>, restored)
          ELSE IF exprValue = "abstract"
          THEN HeadRet(ThrowCompletion("IntrospectionError"), NoIterator, <<>>, restored)
          ELSE HeadRet(NormalCompletion("iterator"), EnumerateObjectProperties(S),
                       <<[function |-> "ToObject", argument |-> exprValue],
                         [function |-> "EnumerateObjectProperties", argument |-> "O"]>>,
                       restored)
     ELSE HeadRet(GetIterator(exprValue), NoIterator,
                  <<[function |-> "GetIterator", argument |-> exprValue]>>, restored)

\* the head of a loop is evaluated
ForInOfHead ==
  /\ iterator = NoIterator
  /\ \E exprValue \in ExprValues, iterationKind \in IterationKinds,
        TDZnames \in {<<>>, <<"a">>} :
       LET r == ForInOfHeadEvaluation(Store, TDZnames, exprValue, iterationKind)
       IN /\ iterator' = r.iterator
          /\ last' = [op |-> "ForInOfHeadEvaluation", exprValue |-> exprValue,
                      iterationKind |-> iterationKind, TDZnames |-> TDZnames,
                      evaluatedIn |-> EvaluationEnvironment(TDZnames),
                      completion |-> r.completion, calls |-> r.calls,
                      lexicalEnvironment |-> r.lexicalEnvironment]
  /\ UNCHANGED <<kind, generator, key, extensible, properties, symbols, pc, callVars,
                 protoVars, stringVars, parentKeyOrder, contextStack, environments, flagVars, loop, heap>>

NextForInOf ==
  \/ ForInOfHead
  \/ IteratorNext
  \/ EnumDelete

SpecForInOf == InitEnum /\ [][NextForInOf]_vars

(***************************************************************************)
(* The loop of a for-in or for-of statement: the head, then                *)
(* ForInOfBodyEvaluation one iteration at a time.  What the iterator, the  *)
(* binding of the loop variable and the body of the loop give in an        *)
(* iteration are inputs of that iteration.  lhs is not a pattern.          *)
(***************************************************************************)
\* how many iterations step the iterator to a value
MaxIterations == 2

Labels == {"a", "b"}
Target(l) == [label |-> l]
Targets == {NoTarget} \cup {Target(l) : l \in Labels}

ContinueCompletion(value, target) ==
  [type |-> "continue", value |-> value, target |-> target]
ReturnCompletion(value) == [type |-> "return", value |-> value, target |-> NoTarget]

LhsKinds == {"lexicalBinding", "varBinding", "assignment"}

\* the label sets of the statement; a null labelSet has no element either
LabelSets == {{}, {"a"}}

\* what IteratorStep and IteratorValue give: false, a result with its
\* value, or a throw
NextResults == {"false", "value", "throws"}

\* what the binding of the loop variable gives
Statuses == {NormalCompletion("empty"), ThrowCompletion("e")}

\* what the evaluation of the body gives
BodyResults ==
  {NormalCompletion(v) : v \in {"empty", "v1"}}
    \cup {BreakCompletion(v, t) : v \in {"empty", "v1"}, t \in Targets}
    \cup {ContinueCompletion(v, t) : v \in {"empty", "v1"}, t \in Targets}
    \cup {ReturnCompletion("v1"), ThrowCompletion("e")}

\* LoopContinues that does not look at the label set
LoopContinuesWithoutLabelSet(completion, labelSet) ==
  IF completion.type = "normal" THEN TRUE
  ELSE IF completion.type # "continue" THEN FALSE
  ELSE IF completion.target = NoTarget THEN TRUE
  ELSE FALSE

\* ECMA262 13.7.1.2
LoopContinues(completion, labelSet) ==
  IF completion.type = "normal" THEN TRUE
  ELSE IF completion.type # "continue" THEN FALSE
  ELSE IF completion.target = NoTarget THEN TRUE
  ELSE IF completion.target.label \in labelSet THEN TRUE
  ELSE FALSE

InternalGetResultValue(result) == result.value

\* UpdateEmpty that leaves an empty value empty
UpdateEmptyKeepsEmpty(completion, value) == completion

\* UpdateEmpty(completion, value)
UpdateEmpty(completion, value) ==
  IF completion.value = "empty" THEN [completion EXCEPT !.value = value] ELSE completion

\* IteratorClose(iterator, completion): the completion it was called with
IteratorClose(completion) == completion

\* the loop while it runs and when it has exited: what it exited with, the
\* LexicalEnvironment of the running execution context, the completions
\* IteratorClose was called with, and what the last iteration was given
Loop(at, V, lexEnv, lhsKind, labelSet, steps, closes, iteration, outcome) ==
  [pc |-> at, V |-> V, lexicalEnvironment |-> lexEnv, oldEnv |-> "oldEnv",
   lhsKind |-> lhsKind, labelSet |-> labelSet, steps |-> steps, closes |-> closes,
   iteration |-> iteration, outcome |-> outcome]

NoIteration == [nextResult |-> "none"]
NoOutcome == [type |-> "none"]

\* an iteration of ForInOfBodyEvaluation that leaves the environment of the
\* iteration installed when the binding of the loop variable is abrupt
ForInOfBodyIterationNoRestore(L, nextResult, status, result) ==
  LET iteration == [nextResult |-> nextResult, status |-> status, result |-> result]
      iterationEnv == IF L.lhsKind = "lexicalBinding" THEN "iterationEnv"
                      ELSE L.lexicalEnvironment
  IN IF nextResult = "throws"
     THEN [L EXCEPT !.pc = "thrown", !.steps = @ + 1, !.outcome = ThrowCompletion("e"),
                    !.iteration = [nextResult |-> nextResult]]
     ELSE IF nextResult = "false"
     THEN [L EXCEPT !.pc = "returned", !.steps = @ + 1,
                    !.outcome = NormalCompletion(L.V),
                    !.iteration = [nextResult |-> nextResult]]
     ELSE IF status.type # "normal"
     THEN [L EXCEPT !.pc = "thrown", !.steps = @ + 1, !.lexicalEnvironment = iterationEnv,
                    !.closes = Append(@, status), !.outcome = IteratorClose(status),
                    !.iteration = [nextResult |-> nextResult, status |-> status]]
     ELSE IF ~LoopContinues(result, L.labelSet)
     THEN [L EXCEPT !.pc = "thrown", !.steps = @ + 1, !.lexicalEnvironment = L.oldEnv,
                    !.closes = Append(@, UpdateEmpty(result, L.V)),
                    !.outcome = IteratorClose(UpdateEmpty(result, L.V)),
                    !.iteration = iteration]
     ELSE [L EXCEPT !.steps = @ + 1, !.lexicalEnvironment = L.oldEnv,
                    !.V = IF InternalGetResultValue(result) # "empty"
                          THEN InternalGetResultValue(result) ELSE @,
                    !.iteration = iteration]

\* ECMA262 13.7.5.13, step 5: one iteration of the loop
ForInOfBodyIteration(L, nextResult, status, result) ==
  LET iteration == [nextResult |-> nextResult, status |-> status, result |-> result]
      iterationEnv == IF L.lhsKind = "lexicalBinding" THEN "iterationEnv"
                      ELSE L.lexicalEnvironment
  IN IF nextResult = "throws"
     THEN [L EXCEPT !.pc = "thrown", !.steps = @ + 1, !.outcome = ThrowCompletion("e"),
                    !.iteration = [nextResult |-> nextResult]]
     ELSE IF nextResult = "false"
     THEN [L EXCEPT !.pc = "returned", !.steps = @ + 1,
                    !.outcome = NormalCompletion(L.V),
                    !.iteration = [nextResult |-> nextResult]]
     ELSE IF status.type # "normal"
     THEN [L EXCEPT !.pc = "thrown", !.steps = @ + 1, !.lexicalEnvironment = L.oldEnv,
                    !.closes = Append(@, status), !.outcome = IteratorClose(status),
                    !.iteration = [nextResult |-> nextResult, status |-> status]]
     ELSE IF ~LoopContinues(result, L.labelSet)
     THEN [L EXCEPT !.pc = "thrown", !.steps = @ + 1, !.lexicalEnvironment = L.oldEnv,
                    !.closes = Append(@, UpdateEmpty(result, L.V)),
                    !.outcome = IteratorClose(UpdateEmpty(result, L.V)),
                    !.iteration = iteration]
     ELSE [L EXCEPT !.steps = @ + 1, !.lexicalEnvironment = L.oldEnv,
                    !.V = IF InternalGetResultValue(result) # "empty"
                          THEN InternalGetResultValue(result) ELSE @,
                    !.iteration = iteration]

\* the statement evaluates its head and, with the iterator the head
\* returned, enters ForInOfBodyEvaluation
LoopHead ==
  /\ loop = NoLoop
  /\ \E exprValue \in ExprValues, iterationKind \in IterationKinds,
        TDZnames \in {<<>>, <<"a">>}, lhsKind \in LhsKinds, labelSet \in LabelSets :
       LET r == ForInOfHeadEvaluation(Store, TDZnames, exprValue, iterationKind)
       IN /\ iterator' = r.iterator
          /\ last' = [op |-> "ForInOfHeadEvaluation", exprValue |-> exprValue,
                      iterationKind |-> iterationKind, TDZnames |-> TDZnames,
                      evaluatedIn |-> EvaluationEnvironment(TDZnames),
                      completion |-> r.completion, calls |-> r.calls,
                      lexicalEnvironment |-> r.lexicalEnvironment]
          /\ loop' = IF r.completion.type = "normal"
                     THEN Loop("running", "undefined", r.lexicalEnvironment, lhsKind,
                               labelSet, 0, <<>>, NoIteration, NoOutcome)
                     ELSE Loop("thrown", "undefined", r.lexicalEnvironment, lhsKind,
                               labelSet, 0, <<>>, NoIteration, r.completion)
  /\ UNCHANGED <<kind, generator, key, extensible, properties, symbols, pc, callVars,
                 protoVars, stringVars, parentKeyOrder, contextStack, environments, flagVars, heap>>

\* one iteration of ForInOfBodyEvaluation
LoopIteration ==
  /\ loop.pc = "running"
  /\ \E nextResult \in NextResults, status \in Statuses, result \in BodyResults :
       /\ loop.steps < MaxIterations \/ nextResult # "value"
       /\ loop' = ForInOfBodyIteration(loop, nextResult, status, result)
  /\ UNCHANGED <<kind, generator, key, extensible, properties, symbols, pc, last, callVars,
                 protoVars, stringVars, enumVars, contextStack, environments, flagVars, heap>>

\* the statement has completed
LoopExit ==
  /\ loop.pc \in {"returned", "thrown"}
  /\ loop' = NoLoop
  /\ iterator' = NoIterator
  /\ last' = NoCall
  /\ UNCHANGED <<kind, generator, key, extensible, properties, symbols, pc, callVars,
                 protoVars, stringVars, parentKeyOrder, contextStack, environments, flagVars, heap>>

NextLoop ==
  \/ LoopHead
  \/ LoopIteration
  \/ LoopExit

SpecLoop == InitBindings /\ [][NextLoop]_vars

(***************************************************************************)
(* OrdinarySetPrototypeOf over the objects of the heap.  An object has a   *)
(* $Prototype, an object or "null", and an [[Extensible]] slot; the chains *)
(* are acyclic when the client program starts.                             *)
(***************************************************************************)

PrototypeValues == Objects \cup {"null"}

\* the objects on the prototype chain that starts at p, p included, as far
\* as it can be followed without coming back to an object already met
RECURSIVE ChainFrom(_, _, _)
ChainFrom(h, p, seen) ==
  IF p = "null" \/ p \in seen THEN seen
  ELSE ChainFrom(h, h[p].Prototype, seen \cup {p})

\* following $Prototype from o does not lead back to o
RECURSIVE ReachesNull(_, _, _)
ReachesNull(h, p, seen) ==
  IF p = "null" THEN TRUE
  ELSE IF p \in seen THEN FALSE
  ELSE ReachesNull(h, h[p].Prototype, seen \cup {p})

Acyclic(h) == \A o \in Objects : ReachesNull(h, o, {})

Heaps == {h \in [Objects -> [Prototype : PrototypeValues, Extensible : BOOLEAN]] :
            Acyclic(h)}

\* step 8, the loop: "set" when p has become null, "false" when p is O, and
\* "diverges" when p is an object the loop has been at, so that the loop
\* does not end
RECURSIVE ChainWalk(_, _, _, _)
ChainWalk(h, p, O, seen) ==
  IF p = "null" THEN "set"
  ELSE IF p = O THEN "false"
  ELSE IF p \in seen THEN "diverges"
  ELSE ChainWalk(h, h[p].Prototype, O, seen \cup {p})

PrototypeRet(result, h) == [result |-> result, heap |-> h]

OrdinarySetPrototypeOfWithoutWalk(h, O, V) ==
  LET extensible_ == h[O].Extensible
      current == h[O].Prototype
  IN IF V = current THEN PrototypeRet("true", h)
     ELSE IF ~extensible_ THEN PrototypeRet("false", h)
     ELSE PrototypeRet("true", [h EXCEPT ![O].Prototype = V])

OrdinarySetPrototypeOf(h, O, V) ==
  LET extensible_ == h[O].Extensible
      current == h[O].Prototype
      walk == ChainWalk(h, V, O, {})
  IN IF V = current THEN PrototypeRet("true", h)
     ELSE IF ~extensible_ THEN PrototypeRet("false", h)
     ELSE IF walk = "set" THEN PrototypeRet("true", [h EXCEPT ![O].Prototype = V])
     ELSE PrototypeRet(walk, h)

InitPrototypes ==
  /\ kind = "ordinary"
  /\ generator = FALSE
  /\ key = "x"
  /\ extensible = TRUE
  /\ properties = [k \in BindingKeys |-> NoBinding]
  /\ symbols = [k \in SymbolKeys |-> NoBinding]
  /\ pc = "idle"
  /\ last = NoCall
  /\ NoCallState
  /\ NoParent
  /\ NoString
  /\ NoEnumeration
  /\ NoContexts
  /\ partial = FALSE
  /\ simple = FALSE
  /\ loop = NoLoop
  /\ heap \in Heaps

\* the client program calls O.$SetPrototypeOf(V)
SetPrototypeOf ==
  /\ \E O \in Objects, V \in PrototypeValues :
       LET r == OrdinarySetPrototypeOf(heap, O, V)
       IN /\ heap' = r.heap
          /\ last' = [op |-> "OrdinarySetPrototypeOf", O |-> O, V |-> V,
                      result |-> r.result, heap |-> heap]
  /\ UNCHANGED <<kind, generator, key, extensible, properties, symbols, pc, callVars,
                 protoVars, stringVars, enumVars, contextStack, environments, flagVars,
                 loop>>

NextPrototypes == SetPrototypeOf

SpecPrototypes == InitPrototypes /\ [][NextPrototypes]_vars

(***************************************************************************)
(* What a returned call is compared with.                                  *)
(***************************************************************************)
\* the maps as they were when the returned call started
PreStore == [properties |-> last.properties, symbols |-> last.symbols]
\* current: the own descriptor of last.P when the call started
current == OrdinaryGetOwnProperty(PreStore, last.P)
\* the own descriptor of last.P now
stored == OrdinaryGetOwnProperty(Store, last.P)
Defined == pc = "returned" /\ last.op = "DefineOwnProperty"
StateUnchanged == properties = last.properties /\ symbols = last.symbols
NoEffect == StateUnchanged /\ last.recorded = <<>> /\ last.emitted = <<>>
\* every field of Desc is a field of cur with the same value
SameFields(Desc, cur) == \A f \in DOMAIN Desc : f \in DOMAIN cur /\ Desc[f] = cur[f]
\* the protocol's failure semantics: a call that needs an answer about an
\* abstract value raises IntrospectionError instead of returning
Uncertain ==
  \/ Has(current, "value") /\ IsAbstract(current.value)
  \/ Has(last.Desc, "value") /\ IsAbstract(last.Desc.value)
\* current.value might have been deleted: the define raises IntrospectionError
\* before it looks at Desc
PossiblyDeleted == Has(current, "value") /\ mightHaveBeenDeleted(current.value)
\* the call returned r, or could not decide and raised
Outcome(r) == last.result = r \/ (last.result = "IntrospectionError" /\ Uncertain)
Live(b) == b # NoBinding /\ b # Undef
BindingIn(props, syms, k) == IF k \in SymbolKeys THEN syms[k] ELSE props[k]

\* C1 as claimed: a define whose Desc has, field for field, the values
\* current has returns true, records no binding, changes neither map and
\* emits nothing.
C1_IdenticalDefineReturnsTrue ==
  (Defined /\ current # Undef /\ SameFields(last.Desc, current))
    => (NoEffect /\ last.result = "true")

\* C1: a define whose Desc has, field for field, the values current has is a
\* no-op: it calls recordModifiedProperty for no binding, leaves both maps
\* as they were and emits nothing to the generator; it returns true, unless
\* current.value might have been deleted, and then it raises
\* IntrospectionError.
C1_IdenticalDefineIsNoOp ==
  (Defined /\ current # Undef /\ SameFields(last.Desc, current))
    => (NoEffect
        /\ IF PossiblyDeleted THEN last.result = "IntrospectionError"
           ELSE last.result = "true")

C1_Witness ==
  /\ Defined /\ current # Undef /\ SameFields(last.Desc, current)
  /\ Has(last.Desc, "value") /\ Has(last.Desc, "enumerable")
  /\ last.result = "true" /\ NoEffect

\* C2: defining a key that has no descriptor yet on an extensible object and
\* reading it back gives CompletePropertyDescriptor(Desc).
C2_DefineThenGetIsCompleted ==
  (Defined /\ current = Undef /\ extensible)
    => (last.result = "true" /\ stored = CompletePropertyDescriptor(last.Desc))

C2_Witness ==
  /\ Defined /\ current = Undef /\ extensible
  /\ IsAccessorDescriptor(last.Desc) /\ ~Has(last.Desc, "set")
  /\ ~Has(last.Desc, "configurable")
  /\ stored = CompletePropertyDescriptor(last.Desc)

\* C3: with no current descriptor the property is created only if O is
\* extensible: if not, the define returns false and changes, records and
\* emits nothing; if so, it returns true and P is an own property.
C3_CreationNeedsExtensible ==
  (Defined /\ current = Undef)
    => IF extensible
       THEN last.result = "true" /\ stored # Undef
       ELSE last.result = "false" /\ NoEffect

C3_Witness ==
  /\ Defined /\ current = Undef /\ ~extensible
  /\ last.result = "false" /\ NoEffect

\* C4 as claimed: a non-configurable current makes the define return false,
\* with nothing changed, when Desc is not identical to it and asks for
\* configurable true or for the other enumerable.
C4_RejectedWithFalse ==
  (/\ Defined /\ current # Undef /\ ~current.configurable
   /\ ~SameFields(last.Desc, current)
   /\ \/ Has(last.Desc, "configurable") /\ last.Desc.configurable
      \/ Has(last.Desc, "enumerable") /\ last.Desc.enumerable # current.enumerable)
    => (StateUnchanged /\ last.result = "false")

\* C4 (the call): a non-configurable current rejects a Desc that is not
\* identical to it and asks for configurable true or for the other
\* enumerable: false is returned and nothing changes.
C4_Call ==
  (/\ Defined /\ current # Undef /\ ~current.configurable
   /\ ~SameFields(last.Desc, current)
   /\ \/ Has(last.Desc, "configurable") /\ last.Desc.configurable
      \/ Has(last.Desc, "enumerable") /\ last.Desc.enumerable # current.enumerable)
    => (StateUnchanged
        /\ IF PossiblyDeleted THEN last.result = "IntrospectionError"
           ELSE last.result = "false")

\* C4 (the step): no operation makes a non-configurable property
\* configurable or changes its enumerable attribute.
C4_Step ==
  \A k \in Keys :
    LET b == BindingIn(properties, symbols, k)
        c == BindingIn(properties', symbols', k)
    IN (Live(b) /\ ~b.configurable)
         => (Live(c) /\ ~c.configurable /\ c.enumerable = b.enumerable)

\* C4: a non-configurable property rejects a define that would make it
\* configurable or flip its enumerable attribute (false is returned, or
\* IntrospectionError raised when current.value might have been deleted;
\* nothing changes), and so stays non-configurable with the same enumerable
\* attribute for ever.
C4_NonConfigurableKeepsAttributes == [](C4_Call) /\ [][C4_Step]_vars

C4_Witness ==
  /\ Defined /\ current # Undef /\ ~current.configurable
  /\ ~Has(last.Desc, "configurable")
  /\ Has(last.Desc, "enumerable") /\ last.Desc.enumerable # current.enumerable
  /\ last.result = "false" /\ StateUnchanged

\* the descriptor a change of kind leaves: the fields of the new kind from
\* Desc or else their defaults, the two attributes from Desc or else from cur
KindChanged(Desc, cur) ==
  LET attrs == [enumerable |-> IF Has(Desc, "enumerable") THEN Desc.enumerable
                               ELSE cur.enumerable,
                configurable |-> IF Has(Desc, "configurable") THEN Desc.configurable
                                 ELSE cur.configurable]
  IN IF IsDataDescriptor(Desc)
     THEN attrs @@ [value |-> IF Has(Desc, "value") THEN Desc.value ELSE "undefined",
                    writable |-> IF Has(Desc, "writable") THEN Desc.writable ELSE FALSE]
     ELSE attrs @@ [get |-> IF Has(Desc, "get") THEN Desc.get ELSE "undefined",
                    set |-> IF Has(Desc, "set") THEN Desc.set ELSE "undefined"]

\* C5 as claimed: a define of the other kind returns false without change
\* when current is non-configurable, and when current is configurable it
\* succeeds and leaves exactly the fields of the new kind.
C5_KindChangeDecided ==
  (/\ Defined /\ current # Undef
   /\ ~IsGenericDescriptor(last.Desc)
   /\ IsDataDescriptor(current) # IsDataDescriptor(last.Desc))
    => IF ~current.configurable
       THEN StateUnchanged /\ last.result = "false"
       ELSE last.result = "true" /\ stored = KindChanged(last.Desc, current)

\* C5: a define of the other kind is rejected when current is
\* non-configurable; when current is configurable it succeeds and leaves
\* exactly the fields of the new kind; when current.value might have been
\* deleted it raises IntrospectionError instead and changes nothing.
C5_KindChange ==
  (/\ Defined /\ current # Undef
   /\ ~IsGenericDescriptor(last.Desc)
   /\ IsDataDescriptor(current) # IsDataDescriptor(last.Desc))
    => IF PossiblyDeleted
       THEN StateUnchanged /\ last.result = "IntrospectionError"
       ELSE IF ~current.configurable
            THEN StateUnchanged /\ last.result = "false"
            ELSE last.result = "true" /\ stored = KindChanged(last.Desc, current)

C5_Witness ==
  /\ Defined /\ current # Undef /\ current.configurable
  /\ IsDataDescriptor(current) /\ IsAccessorDescriptor(last.Desc)
  /\ ~Has(last.Desc, "set") /\ current.value = "v1"
  /\ last.result = "true" /\ stored = KindChanged(last.Desc, current)

\* C6 as claimed: a non-configurable, non-writable data property makes the
\* define of a data Desc return false, with nothing changed, when Desc asks
\* for writable true or has another value.
C6_RejectedWithFalse ==
  (/\ Defined /\ IsDataDescriptor(current)
   /\ ~current.configurable /\ ~current.writable
   /\ IsDataDescriptor(last.Desc)
   /\ \/ Has(last.Desc, "writable") /\ last.Desc.writable
      \/ Has(last.Desc, "value") /\ last.Desc.value # current.value)
    => (StateUnchanged /\ last.result = "false")

\* C6 (the call): a non-configurable, non-writable data property rejects a
\* data Desc that asks for writable true or for another value.
C6_Call ==
  (/\ Defined /\ IsDataDescriptor(current)
   /\ ~current.configurable /\ ~current.writable
   /\ IsDataDescriptor(last.Desc)
   /\ \/ Has(last.Desc, "writable") /\ last.Desc.writable
      \/ Has(last.Desc, "value") /\ last.Desc.value # current.value)
    => (StateUnchanged /\ Outcome("false"))

\* C6 (the step): no define, set or delete changes the value of a
\* non-configurable, non-writable data property.
C6_Step ==
  \A k \in Keys :
    LET b == BindingIn(properties, symbols, k)
        c == BindingIn(properties', symbols', k)
    IN (Live(b) /\ IsDataDescriptor(b) /\ ~b.configurable /\ ~b.writable)
         => (Live(c) /\ IsDataDescriptor(c) /\ c.value = b.value)

\* C6: a non-configurable, non-writable data property rejects a define that
\* would make it writable or change its value (false is returned, or
\* IntrospectionError raised when one of the values is abstract; nothing
\* changes), and keeps its value through every define, set and delete.
C6_FrozenValue == [](C6_Call) /\ [][C6_Step]_vars

C6_Witness ==
  /\ Defined /\ IsDataDescriptor(current)
  /\ ~current.configurable /\ ~current.writable
  /\ Has(last.Desc, "value") /\ ~Has(last.Desc, "writable")
  /\ ~IsAbstract(last.Desc.value) /\ ~IsAbstract(current.value)
  /\ last.Desc.value # current.value
  /\ ~RejectsAttributes(last.Desc, current)
  /\ last.result = "false" /\ StateUnchanged

\* C7: a non-configurable accessor property rejects an accessor Desc whose
\* get or set is not the one it has.
C7_FrozenAccessor ==
  (/\ Defined /\ IsAccessorDescriptor(current) /\ ~current.configurable
   /\ IsAccessorDescriptor(last.Desc)
   /\ \/ Has(last.Desc, "get") /\ last.Desc.get # current.get
      \/ Has(last.Desc, "set") /\ last.Desc.set # current.set)
    => (StateUnchanged /\ last.result = "false")

C7_Witness ==
  /\ Defined /\ IsAccessorDescriptor(current) /\ ~current.configurable
  /\ Has(last.Desc, "get") /\ ~Has(last.Desc, "set")
  /\ last.Desc.get # current.get
  /\ ~RejectsAttributes(last.Desc, current)
  /\ last.result = "false" /\ StateUnchanged

CompleteData(d) == DOMAIN d = {"value", "writable", "enumerable", "configurable"}
CompleteAccessor(d) == DOMAIN d = {"get", "set", "enumerable", "configurable"}

\* C8: every stored descriptor is a complete data descriptor (value,
\* writable, enumerable, configurable and nothing else) or a complete
\* accessor descriptor (get, set, enumerable, configurable and nothing else).
C8_StoredDescriptorsComplete ==
  \A k \in Keys :
    LET b == BindingIn(properties, symbols, k)
    IN Live(b) => (CompleteData(b) \/ CompleteAccessor(b))

C8_Witness ==
  /\ Defined /\ last.result = "true"
  /\ IsAccessorDescriptor(current) /\ IsDataDescriptor(last.Desc)
  /\ ~Has(last.Desc, "writable")
  /\ CompleteData(BindingIn(properties, symbols, last.P))


\* C9: whenever a call has changed the descriptor of a binding, the realm's
\* recordModifiedProperty was called for that binding, and at the first such
\* call the binding still held the descriptor it had before the call.
C9_RecordedBeforeChange ==
  pc = "returned" =>
    \A k \in Keys :
      LET b == BindingIn(last.properties, last.symbols, k)
          c == BindingIn(properties, symbols, k)
      IN b # c =>
           \E i \in 1..Len(last.recorded) :
             /\ last.recorded[i].key = k
             /\ \A j \in 1..(i - 1) : last.recorded[j].key # k
             /\ last.recorded[i].descriptor = (IF b = NoBinding THEN Undef ELSE b)

\* the last emission e tells the generator what P holds now
Describes(e, d) ==
  /\ e.key = last.P
  /\ IF d = Undef
     THEN e.op = (IF kind = "global" THEN "emitGlobalDelete" ELSE "emitPropertyDelete")
     ELSE IF e.op = "emitDefineProperty" THEN e.desc = d
     ELSE /\ e.op \in (IF kind = "global"
                       THEN {"emitGlobalDeclaration", "emitGlobalAssignment"}
                       ELSE {"emitPropertyAssignment"})
          /\ IsDataDescriptor(d) /\ e.value = d.value

CallReturned == pc = "returned" /\ last.op = "OrdinaryCallEvaluateBody"
JoinedOrComposed ==
  last.c.type \in {"JoinedAbruptCompletions", "ComposedAbruptCompletion"}
\* the calls of realm.apply_effects the returned call made
Applies == SelectSeq(last.calls, LAMBDA x : x.op = "apply_effects")
\* the descriptor slot of a binding
DescriptorOf(b) == IF b = NoBinding THEN Undef ELSE b
\* the bindings are what the snapshot holds
BindingsAsIn(snap) ==
  properties = snap.properties /\ symbols = snap.symbols /\ env = snap.env

SetReturned == pc = "returned" /\ last.op = "Set"
\* the maps of O and of parent when the returned call started
PreStoreAll ==
  [properties |-> last.properties, symbols |-> last.symbols,
   parentProperties |-> last.parentProperties, parentSymbols |-> last.parentSymbols,
   isPartial |-> partial, isSimple |-> simple,
   parentIsPartial |-> FALSE, parentIsSimple |-> FALSE,
   recorded |-> <<>>, emitted |-> <<>>, called |-> <<>>, methods |-> <<>>]
ValueOf(d) ==
  IF d = Undef THEN "undefined" ELSE IF Has(d, "value") THEN d.value ELSE "undefined"
\* O's own descriptor and parent's own descriptor when the call started
ownBefore == GetOwnPropertyOf(PreStoreAll, "O", last.P)
parentBefore == GetOwnPropertyOf(PreStoreAll, "parent", last.P)
OUnchanged == properties = last.properties /\ symbols = last.symbols
ParentUnchanged ==
  parentProperties = last.parentProperties /\ parentSymbols = last.parentSymbols
AllUnchanged == OUnchanged /\ ParentUnchanged
\* the calls that consult O's prototype
PrototypeCalls ==
  SelectSeq(last.methods, LAMBDA m : m.method \in {"$GetPrototypeOf", "$Set"})

\* C13: O.$Set consults O's prototype only when O has no own descriptor for
\* P or one whose value might have been deleted: with a certain own
\* descriptor it calls no method of the prototype, and with no own
\* descriptor and a prototype that is not null the result and every
\* mutation are those of parent.$Set(P, V, Receiver).
C13_PrototypeOnlyWhenNoOwn ==
  SetReturned =>
    /\ (ownBefore # Undef /\ ~mightHaveBeenDeleted(ValueOf(ownBefore)))
         => PrototypeCalls = <<>>
    /\ (ownBefore = Undef /\ prototype = "parent")
         => LET first == <<[method |-> "$GetPrototypeOf", on |-> "O"],
                           [method |-> "$Set", on |-> "parent", P |-> last.P,
                            V |-> last.V, Receiver |-> last.Receiver]>>
                r == OrdinarySet(PreStoreAll, "parent", last.P, last.V, last.Receiver)
            IN /\ last.result = r.result
               /\ last.methods = first \o r.S.methods
               /\ last.called = r.S.called
               /\ properties = r.S.properties /\ symbols = r.S.symbols
               /\ parentProperties = r.S.parentProperties
               /\ parentSymbols = r.S.parentSymbols

C13_Witness ==
  /\ SetReturned /\ ownBefore = Undef /\ prototype = "parent"
  /\ IsAccessorDescriptor(parentBefore) /\ parentBefore.set = "f1"
  /\ last.Receiver = "O"
  /\ last.result = "true"
  /\ last.called = <<[func |-> "f1", this |-> "O", arg |-> last.V]>>
  /\ AllUnchanged

\* C14: when O's own descriptor has a value that might have been deleted and
\* O's parent does not permit the creation of a child property P, O.$Set
\* raises IntrospectionError and changes nothing.
C14_ParentRefusesUncertainOwn ==
  (/\ SetReturned
   /\ ownBefore # Undef /\ mightHaveBeenDeleted(ValueOf(ownBefore))
   /\ prototype = "parent"
   /\ ~parentPermitsChildPropertyCreation(PreStoreAll, "parent", last.P))
    => (last.result = "IntrospectionError" /\ AllUnchanged /\ last.called = <<>>)

C14_Witness ==
  /\ SetReturned
  /\ ownBefore # Undef /\ mightHaveBeenDeleted(ValueOf(ownBefore))
  /\ ownBefore.writable /\ last.V = "v1" /\ last.Receiver = "O"
  /\ prototype = "parent" /\ IsAccessorDescriptor(parentBefore)
  /\ last.result = "IntrospectionError" /\ AllUnchanged

\* the object the descriptor for P is found on ("none": the chain has no
\* descriptor), and the descriptor: O's own one, or else the one of O's
\* prototype, or else the default writable data descriptor
Holder ==
  IF ownBefore # Undef THEN "O"
  ELSE IF prototype = "parent" /\ parentBefore # Undef THEN "parent"
  ELSE "none"
Found ==
  IF Holder = "O" THEN ownBefore
  ELSE IF Holder = "parent" THEN parentBefore
  ELSE [value |-> "undefined", writable |-> TRUE, enumerable |-> TRUE,
        configurable |-> TRUE]
\* Receiver's own descriptor when the call started, and now
ReceiverBefore ==
  IF last.Receiver = "primitive" THEN Undef
  ELSE GetOwnPropertyOf(PreStoreAll, last.Receiver, last.P)
ReceiverAfter ==
  IF last.Receiver = "primitive" THEN Undef
  ELSE GetOwnPropertyOf(Store, last.Receiver, last.P)
\* the objects that are not Receiver hold what they held
OthersUnchanged ==
  IF last.Receiver = "O" THEN ParentUnchanged
  ELSE IF last.Receiver = "parent" THEN OUnchanged
  ELSE AllUnchanged
NewDataDescriptor(V) ==
  [value |-> V, writable |-> TRUE, enumerable |-> TRUE, configurable |-> TRUE]

\* C15 as claimed: with a writable data descriptor found, the write goes to
\* Receiver and to no other object: false for a Receiver that is no object,
\* a new data property with value V when Receiver has no own P, false
\* without mutation when Receiver's own P is an accessor or a non-writable
\* data property, and else Receiver's P redefined with value V; with a
\* certain non-writable data descriptor found, false without mutation.
C15_WriteGoesToReceiver ==
  (SetReturned /\ IsDataDescriptor(Found))
    => IF Found.writable
       THEN /\ OthersUnchanged
            /\ IF last.Receiver = "primitive"
               THEN last.result = "false" /\ AllUnchanged
               ELSE IF ReceiverBefore = Undef
               THEN last.result = "true" /\ ReceiverAfter = NewDataDescriptor(last.V)
               ELSE IF IsAccessorDescriptor(ReceiverBefore) \/ ~ReceiverBefore.writable
               THEN last.result = "false" /\ AllUnchanged
               ELSE last.result = "true" /\ ReceiverAfter # Undef
                    /\ ReceiverAfter.value = last.V
       ELSE ~mightHaveBeenDeleted(Found.value)
              => (last.result = "false" /\ AllUnchanged)

\* no value the write looks at might have been deleted
AllCertain ==
  /\ ~mightHaveBeenDeleted(last.V)
  /\ ~mightHaveBeenDeleted(ValueOf(Found))
  /\ ~mightHaveBeenDeleted(ValueOf(ReceiverBefore))

\* C15: when neither V nor a value of the descriptors looked at might have
\* been deleted: with a writable data descriptor found, the write goes to
\* Receiver and to no other object: false for a Receiver that is no object;
\* when Receiver has no own P, a new data property with value V if Receiver
\* is extensible and false without mutation if it is not; false without
\* mutation when Receiver's own P is an accessor or a non-writable data
\* property; and else Receiver's P redefined with value V, its attributes
\* kept; with a non-writable data descriptor found, false without mutation.
C15_CertainWriteGoesToReceiver ==
  (SetReturned /\ IsDataDescriptor(Found) /\ AllCertain)
    => IF Found.writable
       THEN /\ OthersUnchanged
            /\ IF last.Receiver = "primitive"
               THEN last.result = "false" /\ AllUnchanged
               ELSE IF ReceiverBefore = Undef
               THEN IF ExtensibleOf(last.Receiver)
                    THEN last.result = "true"
                         /\ ReceiverAfter = NewDataDescriptor(last.V)
                    ELSE last.result = "false" /\ AllUnchanged
               ELSE IF IsAccessorDescriptor(ReceiverBefore) \/ ~ReceiverBefore.writable
               THEN last.result = "false" /\ AllUnchanged
               ELSE last.result = "true"
                    /\ ReceiverAfter = [ReceiverBefore EXCEPT !.value = last.V]
       ELSE last.result = "false" /\ AllUnchanged

C15_Witness ==
  /\ SetReturned /\ AllCertain
  /\ Holder = "parent" /\ Found.writable /\ last.Receiver = "O"
  /\ ReceiverBefore = Undef /\ extensible
  /\ last.result = "true" /\ ReceiverAfter = NewDataDescriptor(last.V)
  /\ last.V = "v1" /\ ParentUnchanged

\* C16: with an accessor descriptor found, O.$Set returns true exactly when
\* the descriptor has a setter that is not undefined, and then it has called
\* the setter once, with Receiver as this value and V as the one argument;
\* without a setter it calls nothing and changes nothing.
C16_AccessorCallsSetter ==
  (SetReturned /\ IsAccessorDescriptor(Found))
    => IF Found.set # "undefined"
       THEN /\ last.result = "true"
            /\ last.called = <<[func |-> Found.set, this |-> last.Receiver,
                                arg |-> last.V]>>
       ELSE /\ last.result = "false"
            /\ last.called = <<>>
            /\ AllUnchanged

C16_Witness ==
  /\ SetReturned /\ Holder = "O" /\ IsAccessorDescriptor(Found)
  /\ Found.set = "f1" /\ last.Receiver = "parent" /\ last.V = "adel"
  /\ last.result = "true"
  /\ last.called = <<[func |-> "f1", this |-> "parent", arg |-> "adel"]>>

\* the calls of Receiver.$Delete and Receiver.$DefineOwnProperty
Deletes == SelectSeq(last.methods, LAMBDA m : m.method = "$Delete")
Defines == SelectSeq(last.methods, LAMBDA m : m.method = "$DefineOwnProperty")
WriteCalls == SelectSeq(last.methods, LAMBDA m : m.method \in {"$Delete", "$DefineOwnProperty"})

\* C17: when the write reaches a Receiver whose own descriptor for P is a
\* writable data descriptor: if V or the value of that descriptor might have
\* been deleted, Receiver.$Delete(P) is called and then
\* Receiver.$DefineOwnProperty(P, valueDesc), which finds no current
\* descriptor when the delete succeeded; if neither might have been
\* deleted, no delete is called.
C17_DeleteBeforeDefine ==
  (/\ SetReturned /\ Defines # <<>>
   /\ IsDataDescriptor(ReceiverBefore) /\ ReceiverBefore.writable)
    => IF mightHaveBeenDeleted(last.V) \/ mightHaveBeenDeleted(ReceiverBefore.value)
       THEN /\ Len(WriteCalls) = 2
            /\ WriteCalls[1].method = "$Delete" /\ WriteCalls[1].on = last.Receiver
            /\ WriteCalls[2].method = "$DefineOwnProperty"
            /\ WriteCalls[2].on = last.Receiver
            /\ WriteCalls[1].result = "true" => WriteCalls[2].current = Undef
       ELSE Deletes = <<>>

C17_Witness ==
  /\ SetReturned /\ Len(WriteCalls) = 2
  /\ IsDataDescriptor(ReceiverBefore) /\ ReceiverBefore.writable
  /\ ReceiverBefore.configurable
  /\ ~mightHaveBeenDeleted(last.V) /\ mightHaveBeenDeleted(ReceiverBefore.value)
  /\ WriteCalls[1].method = "$Delete" /\ WriteCalls[1].result = "true"
  /\ WriteCalls[2].method = "$DefineOwnProperty" /\ WriteCalls[2].current = Undef


(***************************************************************************)
(* What a returned ArraySetLength is compared with.                        *)
(***************************************************************************)
LengthReturned == pc = "returned" /\ last.op = "ArraySetLength"
oldLength == Num[last.properties["length"].value]
\* the call shrinks a writable length
Shrinks ==
  /\ Has(last.Desc, "value") /\ Num[last.Desc.value] >= 0
  /\ Num[last.Desc.value] < oldLength
  /\ last.properties["length"].writable
\* the indices A has between the new and the old length, and those of them
\* a delete is refused for
PresentIndices ==
  {Num[k] : k \in {x \in IndexKeys :
                     /\ last.properties[x] # NoBinding
                     /\ Num[last.Desc.value] <= Num[x] /\ Num[x] < oldLength}}
RefusedIndices ==
  {i \in PresentIndices :
     LET b == last.properties[NumberToString(i)] IN b # Undef /\ ~b.configurable}
\* the indices A.$Delete was called for, in the order of the calls
DeletedIndices ==
  LET calls == SelectSeq(last.methods, LAMBDA m : m.method = "$Delete")
  IN [i \in 1..Len(calls) |-> Num[calls[i].P]]
Maximum(xs) == CHOOSE x \in xs : \A y \in xs : y <= x

\* C18: a call that shrinks a writable length calls A.$Delete for the
\* indices A has between the new and the old length, the larger index
\* first, down to the first index the delete is refused for: then length
\* is that index plus one and the result false; when no delete is refused,
\* every one of these indices is deleted, length is the new length and the
\* result true.
C18_DeletesDescending ==
  (LengthReturned /\ Shrinks)
    => IF RefusedIndices = {}
       THEN /\ last.result = "true"
            /\ properties["length"].value = last.Desc.value
            /\ DeletedIndices = Reverse(SortNumeric(PresentIndices))
       ELSE LET k == Maximum(RefusedIndices)
            IN /\ last.result = "false"
               /\ properties["length"].value = NumberToString(k + 1)
               /\ DeletedIndices = Reverse(SortNumeric({i \in PresentIndices : i >= k}))


(***************************************************************************)
(* What a returned call on a String object is compared with.               *)
(***************************************************************************)
StringGot == pc = "returned" /\ last.op = "$GetOwnProperty"

KeysReturned == pc = "returned" /\ last.op = "$OwnPropertyKeys"

\* what O's map holds for k, and whether that is a property of O
HeldFor(k) == IF k \in SymbolKeys THEN symbols[k] ELSE properties[k]
IsOwn(k) == HeldFor(k) # NoBinding /\ HeldFor(k) # Undef

\* P is the canonical string of an integer i with 0 <= i < length of the string
InRange(P) == \E i \in 0..(Len(StringData) - 1) : P = NumberToString(i)

Synthesised(P) ==
  [value |-> StringData[Num[P] + 1], writable |-> FALSE, enumerable |-> TRUE,
   configurable |-> FALSE]

OwnIn(seq) == SelectSeq(seq, LAMBDA k : IsOwn(k))

\* the keys O.$OwnPropertyKeys() is to return
OwnKeysInOrder ==
  LET len == Len(StringData)
      indices == [i \in 1..len |-> NumberToString(i - 1)]
      larger == {Num[k] : k \in {k \in {"0", "1", "2"} : IsOwn(k) /\ Num[k] >= len}}
      strings == SelectSeq(OwnIn(keyOrder.properties), LAMBDA k : k \notin {"0", "1", "2"})
  IN indices \o MapToString(SortNumeric(larger)) \o strings \o OwnIn(keyOrder.symbols)

\* C20: O.$OwnPropertyKeys() of a String object returns exactly the indices
\* of the string ascending, then the own array-index keys >= len in
\* ascending numeric order, then the own non-index string keys in order of
\* creation, then the own symbol keys in order of creation.
C20_OwnPropertyKeysOrder ==
  KeysReturned => last.result = OwnKeysInOrder


(***************************************************************************)
(* What an enumeration of the properties of O is compared with.            *)
(***************************************************************************)
Enumerating == iterator # NoIterator

Trace == IF Enumerating THEN iterator.trace ELSE <<>>

Yielded(i) == Trace[i].event = "yielded"

\* C21: over one enumeration no key is yielded twice, and a key that was
\* met as a non-enumerable own property of an object of the chain is not
\* yielded afterwards, neither from that object nor from a later one.
C21_NoKeyTwiceNoShadowedKey ==
  \A i, j \in DOMAIN Trace :
    (i < j /\ Yielded(j) /\ Trace[i].key = Trace[j].key) =>
      (~Yielded(i) /\ Trace[i].event # "hidden")

\* O and parent share a key that was yielded once, and parent holds an
\* enumerable property under a key that O hid
C21_Witness ==
  /\ Enumerating
  /\ iterator.done
  /\ prototype = "parent"
  /\ \E k \in EnumKeys :
       /\ \E i \in DOMAIN Trace : Trace[i] = [event |-> "yielded", key |-> k, obj |-> "O"]
       /\ GetOwnPropertyOf(Store, "parent", k) # Undef
       /\ GetOwnPropertyOf(Store, "parent", k).enumerable
  /\ \E k \in EnumKeys :
       /\ \E i \in DOMAIN Trace : Trace[i] = [event |-> "hidden", key |-> k, obj |-> "O"]
       /\ GetOwnPropertyOf(Store, "parent", k) # Undef
       /\ GetOwnPropertyOf(Store, "parent", k).enumerable

NoSymbolYielded ==
  \A i \in DOMAIN Trace : Yielded(i) => Trace[i].key \notin SymbolKeys

DoneStays == (Enumerating /\ iterator.done) => iterator'.done

Failed == Enumerating /\ iterator.calls > 0 /\ Has(last.result, "thrown")

\* C22 as stated: no symbol key is yielded, after finitely many calls
\* next() returns done=true, and then every later call returns done=true.
C22_EnumerationEnds ==
  /\ []NoSymbolYielded
  /\ <>(Enumerating /\ iterator.done)
  /\ [][DoneStays]_vars

\* C22: no symbol key is yielded; after finitely many calls next() returns
\* done=true, unless a call fails with IntrospectionError on a
\* non-enumerable property whose value might have been deleted; and once
\* done=true has been returned every later call returns done=true.
C22_EnumerationEndsOrFails ==
  /\ []NoSymbolYielded
  /\ <>((Enumerating /\ iterator.done) \/ Failed)
  /\ [][DoneStays]_vars

\* done=true was returned twice over a chain of two objects, after a key
\* was yielded and the symbol key of O was passed over
C22_Witness ==
  /\ Enumerating
  /\ iterator.done
  /\ iterator.calls >= 3
  /\ prototype = "parent"
  /\ "@@s" \in Range(keyOrder.symbols)
  /\ \E i \in DOMAIN Trace : Yielded(i)


(***************************************************************************)
(* What a call and the context stack after it are compared with.           *)
(***************************************************************************)
CallMade == last.op \in {"EvaluateCall", "EvaluateDirectCall", "Call"}

\* the call reached F.$Call of a function, which pushed a context
Entered == CallMade /\ last.result = "running"

running == contextStack[Len(contextStack)]

\* C23: a call in tail position does not grow the context stack: while the
\* callee of a tail call runs, the stack is as deep as it was while the
\* caller ran, for every context on the stack that a tail call entered.
C23_TailCallsDoNotGrowStack ==
  \A i \in DOMAIN contextStack :
    contextStack[i].tail => i = contextStack[i].callerDepth

\* C24: OrdinaryCallBindThis binds nothing for a lexical function, the
\* this argument itself for a strict or native function, and for a
\* non-strict function the global this value when the this argument is
\* null or undefined and the boxed this argument otherwise.
C24_ThisBoundByMode ==
  Entered =>
    LET F == last.F
        bound == environments[running.lexicalEnvironment]
    IN IF F.thisMode = "lexical"
       THEN bound.thisBindingStatus = "uninitialized"
       ELSE /\ bound.thisBindingStatus = "initialized"
            /\ bound.thisValue =
                 IF F.thisMode = "strict" \/ F.native THEN last.V
                 ELSE IF last.V \in {"null", "undefined"} THEN GlobalThisValue
                 ELSE IF last.V = "O" THEN "O"
                 ELSE "Object(v1)"

\* a non-strict function was called on a primitive, which was boxed
C24_Witness ==
  /\ Entered
  /\ last.F = [thisMode |-> "global", native |-> FALSE]
  /\ last.V = "v1"
  /\ environments[running.lexicalEnvironment].thisValue = "Object(v1)"

CallOfCall == last.op = "Call"

StackUnchanged == contextStack = last.contextStack /\ environments = last.environments

\* C25: Call(F, V, args) throws a TypeError, invokes no call hook and leaves
\* the context stack alone when IsCallable(F) is false; otherwise it invokes
\* F.$Call(V, args) exactly once, with an empty list when args is omitted.
C25_CallInvokesHookOnce ==
  CallOfCall =>
    IF IsCallable(last.F) = "false"
    THEN last.result = "TypeError" /\ last.hooks = <<>> /\ StackUnchanged
    ELSE last.hooks = <<[F |-> last.F, V |-> last.V,
                         argsList |-> IF last.argsList = NoArguments THEN <<>>
                                      ELSE last.argsList.list]>>

\* C26: PrepareForOrdinaryCall pushes exactly one context: the stack is the
\* stack before, with the running context suspended, plus the callee's
\* context, whose function is F, whose caller is the context that was
\* running, and whose lexical and variable environments are one function
\* environment for F that did not exist before.
C26_PushesOneContext ==
  Entered =>
    LET before == last.contextStack
        n == Len(before)
    IN /\ Len(contextStack) = n + 1
       /\ \A i \in 1..(n - 1) : contextStack[i] = before[i]
       /\ contextStack[n] = [before[n] EXCEPT !.suspended = TRUE]
       /\ running.function = last.F
       /\ running.caller = before[n].id
       /\ running.lexicalEnvironment = running.variableEnvironment
       /\ running.lexicalEnvironment \notin DOMAIN last.environments
       /\ running.lexicalEnvironment \in DOMAIN environments
       /\ environments[running.lexicalEnvironment].function = last.F
       /\ \A c \in 1..n : contextStack[c].lexicalEnvironment # running.lexicalEnvironment
       /\ \A e \in DOMAIN last.environments :
            environments[e] = last.environments[e]

\* a function called a function: three contexts, the lower ones suspended
C26_Witness ==
  /\ Entered
  /\ Len(contextStack) = 3
  /\ contextStack[2].suspended
  /\ running.caller = contextStack[2].id
  /\ ~running.suspended


(***************************************************************************)
(* What a returned ...OrThrow operation is compared with.                  *)
(***************************************************************************)
OrThrowReturned ==
  pc = "returned" /\ last.op \in {"DeletePropertyOrThrow", "DefinePropertyOrThrow", "Set(Throw)"}

\* what the hook of O returns in the state the operation was called in
HookResult ==
  CASE last.op = "DeletePropertyOrThrow" -> OrdinaryDelete(PreStoreAll, last.P).result
    [] last.op = "DefinePropertyOrThrow" ->
         OrdinaryDefineOwnProperty(PreStoreAll, last.P, last.Desc).result
    [] last.op = "Set(Throw)" -> OrdinarySet(PreStoreAll, "O", last.P, last.V, "O").result

Throws == last.op # "Set(Throw)" \/ last.Desc.Throw

\* C27: the operation throws a TypeError exactly when the hook returns
\* false and the operation is to throw, returns true when the hook returns
\* true, and Set with Throw=false returns what the hook returns; the hooks
\* themselves never raise a TypeError to refuse.
C27_FalseBecomesTypeError ==
  OrThrowReturned =>
    /\ HookResult # "TypeError"
    /\ (last.result = "TypeError") = (HookResult = "false" /\ Throws)
    /\ HookResult = "true" => last.result = "true"
    /\ ~Throws => last.result = HookResult

\* DeletePropertyOrThrow has thrown the TypeError for a property that
\* OrdinaryDelete refused to delete
C27_Witness ==
  /\ OrThrowReturned
  /\ last.op = "DeletePropertyOrThrow"
  /\ HookResult = "false"
  /\ last.result = "TypeError"


(***************************************************************************)
(* What a returned operation on a partial object is compared with.         *)
(***************************************************************************)
ProtocolReturned ==
  pc = "returned" /\ last.op \in {"GetOwnProperty", "DefineOwnProperty", "Delete", "Set"}

\* last.P had no binding in the map of O when the operation was called
NoBindingBefore == GetBinding(PreStoreAll, last.P) = NoBinding

MapsUnchanged ==
  /\ properties = last.properties
  /\ symbols = last.symbols
  /\ parentProperties = last.parentProperties
  /\ parentSymbols = last.parentSymbols

\* C28: for a key with no binding, OrdinaryGetOwnProperty fails with
\* IntrospectionError on a partial object that is not simple and returns
\* undefined on an object that is not partial or is simple; define, delete
\* and set on the partial object fail with the same IntrospectionError,
\* return neither true nor false and leave the key without a binding.
C28_AbsenceIsNotAsserted ==
  ProtocolReturned /\ NoBindingBefore =>
    IF partial /\ ~simple
    THEN /\ last.op = "GetOwnProperty" => last.Desc = IntrospectionError
         /\ last.op # "GetOwnProperty" =>
              /\ last.result = "IntrospectionError"
              /\ MapsUnchanged
              /\ last.methods = <<>>
    ELSE last.op = "GetOwnProperty" => last.Desc = Undef

\* a set of a key with no binding in a partial object that is not simple,
\* whose parent has the property, has failed
C28_Witness ==
  /\ ProtocolReturned
  /\ NoBindingBefore
  /\ partial /\ ~simple
  /\ last.op = "Set"
  /\ prototype = "parent"
  /\ GetBinding(On("parent", Store), last.P) = OtherProperty
  /\ last.result = "IntrospectionError"


(***************************************************************************)
(* What the maps of O are compared with from one state to the next.        *)
(***************************************************************************)
HasBinding(k) == BindingIn(properties, symbols, k) # NoBinding

IsPrefix(xs, ys) == Len(xs) <= Len(ys) /\ SubSeq(ys, 1, Len(xs)) = xs

NoKeyTwice(xs) == \A i, j \in 1..Len(xs) : xs[i] = xs[j] => i = j

\* the binding of the key of the last call, when the call was made
BindingBefore == GetBinding(PreStoreAll, last.P)

\* a delete of a configurable property has returned
DeletedConfigurable ==
  /\ pc = "returned"
  /\ last.op = "Delete"
  /\ Live(BindingBefore)
  /\ BindingBefore.configurable

\* the keys of a map are the keys its order lists, each once
OrderListsBindings ==
  /\ Range(keyOrder.properties) = {k \in BindingKeys : HasBinding(k)}
  /\ Range(keyOrder.symbols) = {k \in SymbolKeys : HasBinding(k)}
  /\ NoKeyTwice(keyOrder.properties)
  /\ NoKeyTwice(keyOrder.symbols)

\* C29: a key that has a binding keeps it in every step, the keys inserted
\* into a map stay where they are in its order (a define or set of a key
\* with a binding inserts nothing), and the delete of a configurable
\* property returns true, leaves the binding with an absent descriptor, and
\* GetOwnProperty of the key is then undefined.
C29_BindingsNeverRemoved ==
  [][/\ \A k \in BindingKeys \cup SymbolKeys : HasBinding(k) => HasBinding(k)'
     /\ IsPrefix(keyOrder.properties, keyOrder'.properties)
     /\ IsPrefix(keyOrder.symbols, keyOrder'.symbols)
     /\ OrderListsBindings'
     /\ DeletedConfigurable' =>
          /\ last'.result = "true"
          /\ GetBinding(Store', last'.P) = Undef
          /\ OrdinaryGetOwnProperty(Store', last'.P) = Undef]_vars

\* x was defined, then y, x was deleted and is now defined again: x is
\* still before y in the map
C29_Witness ==
  /\ pc = "returned"
  /\ last.op = "DefineOwnProperty"
  /\ last.P = "x"
  /\ BindingBefore = Undef
  /\ last.result = "true"
  /\ Live(properties["x"])
  /\ keyOrder.properties = <<"x", "y">>


(***************************************************************************)
(* What an evaluated loop head is compared with.                           *)
(***************************************************************************)
HeadEvaluated == last.op = "ForInOfHeadEvaluation"

CalledFunctions == {last.calls[i].function : i \in 1..Len(last.calls)}

\* C30: for a null or undefined expression value, the head in enumerate
\* mode completes with a break whose value is empty and whose target is
\* absent and calls neither ToObject nor EnumerateObjectProperties; in
\* iterate mode it passes the value to GetIterator and its completion is
\* what GetIterator gave, not a break.
C30_NullOrUndefinedBreaksEnumeration ==
  HeadEvaluated /\ IsNullOrUndefined(last.exprValue) =>
    IF last.iterationKind = "enumerate"
    THEN /\ last.completion = BreakCompletion("empty", NoTarget)
         /\ CalledFunctions \cap {"ToObject", "EnumerateObjectProperties"} = {}
         /\ iterator = NoIterator
    ELSE /\ last.calls = <<[function |-> "GetIterator", argument |-> last.exprValue]>>
         /\ last.completion = GetIterator(last.exprValue)
         /\ last.completion.type # "break"

\* the head of a for-in loop over undefined has completed with the break
C30_Witness ==
  /\ HeadEvaluated
  /\ last.exprValue = "undefined"
  /\ last.iterationKind = "enumerate"
  /\ last.completion.type = "break"


(***************************************************************************)
(* What an iteration of a loop is compared with.                           *)
(***************************************************************************)
\* the body was evaluated in the last iteration
BodyEvaluated == loop.pc # "none" /\ Has(loop.iteration, "result")

\* the loop variable was bound in the last iteration, normally or not
VariableBound == loop.pc # "none" /\ Has(loop.iteration, "status")

\* the target of completion c is absent or an element of the label set
TargetsThisLoop(c) == c.target = NoTarget \/ c.target.label \in loop.labelSet

\* the loop goes on: the iterator was not closed and the next iteration,
\* which starts with IteratorStep, can be taken
LoopGoesOn == loop.pc = "running" /\ loop.closes = <<>> /\ ENABLED LoopIteration

\* C31 as stated: a body result that is a Break or a Continue whose target
\* is absent or in the label set continues the loop.
C31_BreakOrContinueGoesOn ==
  (BodyEvaluated /\ loop.iteration.result.type \in {"break", "continue"}
     /\ TargetsThisLoop(loop.iteration.result)) => LoopGoesOn

\* C31: a body result that is a Continue whose target is absent or in the
\* label set continues the loop: the iterator is not closed and the next
\* IteratorStep is performed.
C31_ContinueGoesOn ==
  (BodyEvaluated /\ loop.iteration.result.type = "continue"
     /\ TargetsThisLoop(loop.iteration.result)) => LoopGoesOn

\* the body gave a Continue to a label of the statement's label set, and
\* the loop goes on
C31_Witness ==
  /\ BodyEvaluated
  /\ loop.iteration.result.type = "continue"
  /\ loop.iteration.result.target = Target("a")
  /\ loop.labelSet = {"a"}
  /\ LoopGoesOn

\* the completion that ended the loop from inside the last iteration: the
\* abrupt status, or the body result with V for its empty value
EndingCompletion ==
  IF Has(loop.iteration, "result")
  THEN [type |-> loop.iteration.result.type,
        value |-> IF loop.iteration.result.value = "empty" THEN loop.V
                  ELSE loop.iteration.result.value,
        target |-> loop.iteration.result.target]
  ELSE loop.iteration.status

\* C32: a loop ended from inside an iteration, by an abrupt status or by
\* a body result for which LoopContinues is false, has called
\* IteratorClose once, with the completion that then propagates (the body
\* result with V for its empty value); a loop whose iterator is exhausted
\* returns V normally and has not called IteratorClose.
C32_ClosedOnceOnAbruptExit ==
  /\ (loop.pc = "thrown" /\ VariableBound) =>
       /\ loop.closes = <<EndingCompletion>>
       /\ loop.outcome = EndingCompletion
       /\ EndingCompletion.type # "normal"
  /\ (loop.pc = "returned") =>
       /\ loop.iteration.nextResult = "false"
       /\ loop.closes = <<>>
       /\ loop.outcome = NormalCompletion(loop.V)
  /\ (loop.pc = "running") => loop.closes = <<>>

\* the body broke with an empty value after an iteration had produced v1:
\* the iterator was closed with the break carrying v1
C32_Witness ==
  /\ loop.pc = "thrown"
  /\ BodyEvaluated
  /\ loop.iteration.result = BreakCompletion("empty", NoTarget)
  /\ loop.V = "v1"
  /\ loop.closes = <<BreakCompletion("v1", NoTarget)>>

\* C39: when the head or the loop has exited, normally or abruptly, the
\* LexicalEnvironment of the running execution context is oldEnv.
C39_EnvironmentRestored ==
  /\ last.op = "ForInOfHeadEvaluation" => last.lexicalEnvironment = "oldEnv"
  /\ loop.pc \in {"returned", "thrown"} => loop.lexicalEnvironment = loop.oldEnv

\* a loop with a lexical binding has exited on an abrupt binding status
C39_Witness ==
  /\ loop.pc = "thrown"
  /\ loop.lhsKind = "lexicalBinding"
  /\ VariableBound
  /\ loop.iteration.status.type = "throw"
  /\ last.evaluatedIn = "TDZ"
  /\ loop.lexicalEnvironment = "oldEnv"


(***************************************************************************)
(* What A holds after a call of ArraySetLength.                            *)
(***************************************************************************)
\* ArraySetLength has returned true or false from an attempt to shrink A
ShrinkAttempted ==
  /\ LengthReturned
  /\ last.result \in {"true", "false"}
  /\ Has(last.Desc, "value")
  /\ Num[last.Desc.value] >= 0
  /\ Num[last.Desc.value] < oldLength

\* the indices of the elements A has now
ElementIndices == {Num[k] : k \in {i \in IndexKeys : Live(properties[i])}}

\* C33: after ArraySetLength has returned from a shrink attempt, true or
\* false, every element that A still has is at an index below the value of
\* A's length.
C33_ElementsBelowLength ==
  ShrinkAttempted => \A n \in ElementIndices : n < Num[properties["length"].value]


\* the [[Delete]] calls of the last ArraySetLength
DeleteCalls == SelectSeq(last.methods, LAMBDA m : m.method = "$Delete")

\* a delete was refused in the last ArraySetLength
DeleteRefused == DeleteCalls # <<>> /\ DeleteCalls[Len(DeleteCalls)].result = "false"

\* the call asked for a smaller length
AsksToShrink ==
  /\ LengthReturned
  /\ Has(last.Desc, "value")
  /\ Num[last.Desc.value] >= 0
  /\ Num[last.Desc.value] < oldLength

\* C40: a shrink of a non-writable length returns false, deletes nothing
\* and leaves A as it was; a shrink of a writable length with
\* Desc.writable false leaves length non-writable, with the new length and
\* true when no delete was refused, and with the refused index plus one
\* and false when one was.
C40_NonWritableLength ==
  AsksToShrink =>
    /\ ~last.properties["length"].writable =>
         /\ last.result = "false"
         /\ DeleteCalls = <<>>
         /\ properties = last.properties
    /\ (last.properties["length"].writable /\ Has(last.Desc, "writable")
          /\ ~last.Desc.writable) =>
         /\ ~properties["length"].writable
         /\ IF DeleteRefused
            THEN /\ last.result = "false"
                 /\ Num[properties["length"].value]
                      = Num[DeleteCalls[Len(DeleteCalls)].P] + 1
            ELSE /\ last.result = "true"
                 /\ properties["length"].value = last.Desc.value

\* a shrink that was to make length non-writable was stopped by an element
\* that is not configurable, after another element was deleted
C40_Witness ==
  /\ AsksToShrink
  /\ last.properties["length"].writable
  /\ Has(last.Desc, "writable") /\ ~last.Desc.writable
  /\ Len(DeleteCalls) = 2
  /\ DeleteRefused
  /\ ~properties["length"].writable


\* the Receiver had an own writable data property last.P when the set was
\* called, and the set returned true
WritableOwnDataSet ==
  /\ SetReturned
  /\ last.result = "true"
  /\ Has(ReceiverBefore, "value")
  /\ ReceiverBefore.writable

\* C34: a successful OrdinarySet on a Receiver that has an own writable
\* data property P leaves the writable, enumerable and configurable
\* attributes of that property as they were.
C34_AttributesKept ==
  WritableOwnDataSet =>
    /\ Has(ReceiverAfter, "value")
    /\ ReceiverAfter.writable = ReceiverBefore.writable
    /\ ReceiverAfter.enumerable = ReceiverBefore.enumerable
    /\ ReceiverAfter.configurable = ReceiverBefore.configurable


(***************************************************************************)
(* What a returned OrdinarySetPrototypeOf is compared with.                *)
(***************************************************************************)

PrototypeSet == last # NoCall /\ last.op = "OrdinarySetPrototypeOf"

\* O occurs on the prototype chain of V as it was before the call
OnChainOfV == last.V # "null" /\ last.O \in ChainFrom(last.heap, last.V, {})

CurrentBefore == last.heap[last.O].Prototype

\* C35: the prototype chains stay acyclic; OrdinarySetPrototypeOf(O, V)
\* returns false and changes nothing when O is on the chain of V or when O
\* is not extensible and V is not the current prototype, returns true and
\* changes nothing when V is the current prototype, and its walk of the
\* chain always ends.
C35_ChainsStayAcyclic ==
  /\ Acyclic(heap)
  /\ PrototypeSet =>
       /\ last.result \in {"true", "false"}
       /\ OnChainOfV => last.result = "false" /\ heap = last.heap
       /\ (~last.heap[last.O].Extensible /\ last.V # CurrentBefore)
            => last.result = "false" /\ heap = last.heap
       /\ last.V = CurrentBefore => last.result = "true" /\ heap = last.heap
       /\ last.result = "true" => heap = [last.heap EXCEPT ![last.O].Prototype = last.V]
       /\ last.result = "false" => heap = last.heap

\* an extensible object was asked to take a prototype whose chain it is on,
\* through another object
C35_Witness ==
  /\ PrototypeSet
  /\ OnChainOfV
  /\ last.V # last.O
  /\ last.heap[last.O].Extensible
  /\ last.result = "false"


(***************************************************************************)
(* What the calls on the key of a character are compared with.             *)
(***************************************************************************)

\* the descriptor $GetOwnProperty synthesizes for the character at key P
CharacterDescriptor(P) ==
  [value |-> StringData[Num[P] + 1], writable |-> FALSE, enumerable |-> TRUE,
   configurable |-> FALSE]

\* a define, set or delete on the key of a character has returned
CharacterCall ==
  /\ pc = "returned"
  /\ last.op \in {"$DefineOwnProperty", "$Set", "$Delete"}
  /\ last.P \in CharacterKeys(StringData)

\* the call asks for a property other than the character's: a delete, a
\* set, or a define one of whose fields is not a field of the character's
\* descriptor with the same value
WouldChange ==
  \/ last.op \in {"$Set", "$Delete"}
  \/ /\ last.op = "$DefineOwnProperty"
     /\ \E f \in DOMAIN last.Desc :
          ~Has(CharacterDescriptor(last.P), f) \/ last.Desc[f] # CharacterDescriptor(last.P)[f]

\* the characters are what they were: no descriptor is held for their keys
\* in the own map, and $GetOwnProperty synthesizes their descriptors
CharactersKept ==
  \A P \in CharacterKeys(StringData) :
    /\ properties[P] \in {NoBinding, Undef}
    /\ StringGetOwnProperty(Store, StringData, P) = CharacterDescriptor(P)

\* the value the call would give the property is abstract
AbstractDefine ==
  /\ last.op = "$DefineOwnProperty"
  /\ Has(last.Desc, "value")
  /\ IsAbstract(last.Desc.value)

YieldsKey ==
  /\ Enumerating
  /\ iterator' # iterator
  /\ iterator'.calls = iterator.calls + 1
  /\ Has(last'.result, "done")
  /\ ~last'.result.done

\* what the object the iterator is at holds for the yielded key when next()
\* returns
DescOfYielded == GetOwnPropertyOf(Store, iterator.obj, last.result.value)

\* C37: a key that next() yields is, when it is yielded, an enumerable own
\* property of the object the iterator is at; a key of the snapshot that
\* was deleted before next() reached it is not yielded.
C37_YieldedKeysExist ==
  [][YieldsKey => (DescOfYielded' # Undef /\ DescOfYielded'.enumerable)]_vars


(***************************************************************************)
(* What a returned ObjectDefineProperties is compared with.                *)
(***************************************************************************)

PropertiesDefined ==
  /\ pc = "returned"
  /\ last.op = "ObjectDefineProperties"
  /\ last.O = "O"
  /\ Has(last.Properties, "keys")

\* the entry is an enumerable own property of Properties
IsWanted(e) == e.present /\ e.enumerable

\* reading the entry or converting its value gives no descriptor
FailsToConvert(e) ==
  \/ Has(e.value, "abstract")
  \/ Has(e.value, "primitive")
  \/ /\ Has(e.value, "object")
     /\ {"get", "set"} \cap DOMAIN e.value.object # {}
     /\ {"value", "writable"} \cap DOMAIN e.value.object # {}

WantedEntries == SelectSeq(last.Properties.keys, IsWanted)

WantedKeys == [i \in DOMAIN WantedEntries |-> WantedEntries[i].key]

ReadFailure == \E i \in DOMAIN WantedEntries : FailsToConvert(WantedEntries[i])

\* O holds under the key of the entry what the descriptor of the entry says
HoldsEntry(e) ==
  /\ properties[e.key] \notin {NoBinding, Undef}
  /\ \A f \in DOMAIN e.value.object : properties[e.key][f] = e.value.object[f]

\* C38: ObjectDefineProperties reads and converts every enumerable own
\* property of Properties before it defines anything: when reading or
\* converting fails O is unchanged; otherwise the defines are made in the
\* order of the keys of Properties, and no key of a non-enumerable or absent
\* entry is defined.
C38_ReadBeforeDefine ==
  PropertiesDefined =>
    /\ ReadFailure =>
         /\ last.result \in {"TypeError", "IntrospectionError"}
         /\ last.defined = <<>>
         /\ properties = last.properties
    /\ ~ReadFailure =>
         /\ IsPrefix(last.defined, WantedKeys)
         /\ last.result = "O" =>
              /\ last.defined = WantedKeys
              /\ \A i \in DOMAIN WantedEntries : HoldsEntry(WantedEntries[i])
    /\ \A k \in BindingKeys :
         k \notin Range(WantedKeys) => properties[k] = last.properties[k]

\* the first entry could be defined on O, the second one cannot be
\* converted, and O is as it was
C38_Witness ==
  /\ PropertiesDefined
  /\ Len(last.Properties.keys) = 2
  /\ IsWanted(last.Properties.keys[1])
  /\ ~FailsToConvert(last.Properties.keys[1])
  /\ last.properties[last.Properties.keys[1].key] = NoBinding
  /\ IsWanted(last.Properties.keys[2])
  /\ FailsToConvert(last.Properties.keys[2])
  /\ last.result = "TypeError"
  /\ properties = last.properties

====
